---- MODULE Spec2Model ----
(***************************************************************************)
(* Model of the chat client in src/ollama_gui.py: the main window          *)
(* (OllamaGUI), the single-model worker (DirectOllamaThread), the pipeline *)
(* worker (CustomCrewThread) and the message store (SQLiteDB/PostgresDB).  *)
(*                                                                         *)
(* Text is a sequence of atoms.  An atom is one character ("a", " ") or a  *)
(* string literal of the source that is only ever appended as a whole.     *)
(***************************************************************************)
EXTENDS Integers, Sequences, FiniteSets, TLC

\* ------------------------------------------------------------------ bounds
MaxSends == 2      \* prompts the window accepts in one behaviour
MaxLines == 2      \* content lines a worker reads in a one-prompt session
MaxStarts == 1     \* times the manager's Start button starts a serve thread
MaxPulls == 1      \* pull operations started in the manager
MaxPullLines == 1  \* progress lines a pull prints
MaxAuthPolls == 2  \* ticks of the manager's sign-in poll timer in one behaviour
BurstLines == 1    \* content lines a worker reads in a session of several prompts
StoredLen == 10    \* messages of the conversation found in the store at start
MaxCrews == 2      \* crews created in one behaviour
MaxPaths == 2      \* files chosen for one indexing run
MaxChunks == 15    \* new chunks one indexing run finds

\* ------------------------------------------------------- program constants
MaxHistSingle == 10
MaxHistCrew == 20
UserWindow == 6
MaxContext == 4000
PollCap == 30
BatchSize == 10

\* -------------------------------------------------------------------- text
WS == {" "}

RECURSIVE LStrip(_)
LStrip(t) == IF t # <<>> /\ Head(t) \in WS THEN LStrip(Tail(t)) ELSE t

RECURSIVE RStrip(_)
RStrip(t) ==
    IF t # <<>> /\ t[Len(t)] \in WS THEN RStrip(SubSeq(t, 1, Len(t) - 1)) ELSE t

\* str.strip()
Strip(t) == RStrip(LStrip(t))

RECURSIVE Concat(_)
Concat(ts) == IF ts = <<>> THEN <<>> ELSE Head(ts) \o Concat(Tail(ts))

\* seq[:n]
FirstN(s, n) == IF Len(s) <= n THEN s ELSE SubSeq(s, 1, n)

\* seq[-n:]
LastN(s, n) == IF Len(s) <= n THEN s ELSE SubSeq(s, Len(s) - n + 1, Len(s))

\* Retrieved text is long, so it is kept as runs: run [ch, n] is n times the
\* character ch.
Run(ch, n) == [ch |-> ch, n |-> n]

RECURSIVE RunsLen(_)
RunsLen(runs) == IF runs = <<>> THEN 0 ELSE Head(runs).n + RunsLen(Tail(runs))

\* text[:n]
RECURSIVE Take(_, _)
Take(runs, n) ==
    IF runs = <<>> \/ n <= 0 THEN <<>>
    ELSE IF Head(runs).n <= n THEN <<Head(runs)>> \o Take(Tail(runs), n - Head(runs).n)
    ELSE <<Run(Head(runs).ch, n)>>

\* "\n\n".join(d.page_content for d in docs), a document of length n being n
\* times "d"
RECURSIVE JoinDocs(_)
JoinDocs(docs) ==
    IF docs = <<>> THEN <<>>
    ELSE IF Len(docs) = 1 THEN <<Run("d", docs[1])>>
    ELSE <<Run("d", docs[1]), Run("\n", 2)>> \o JoinDocs(Tail(docs))

\* list.insert(-1, x)
InsertAtEnd(list, x) == Append(list, x)

\* list.insert(-1, x): before the last element
InsertBeforeLast(list, x) ==
    IF list = <<>> THEN <<x>>
    ELSE SubSeq(list, 1, Len(list) - 1) \o <<x, list[Len(list)]>>

RagPrefix == "Use ONLY these facts if relevant. If unsure, say 'not found':\n\n"

StopMarker == <<"\n\n[GENERATION STOPPED BY USER]">>
NoResponse == <<"[No response]">>

\* ------------------------------------------------------------------ inputs
Workers == 1..MaxSends
Frags == {<<"a">>, <<" ">>}
\* what the user may have typed in the input box when Send is pressed
Inputs == {<<>>, <<" ", "p">>}

\* one line of the response body, as iter_lines() yields it: a JSON object
\* with a message ("content"), an empty line ("blank"), text that does not
\* parse as JSON ("bad"), bytes that are not UTF-8 ("undecodable"), a JSON
\* object without a message ("nomsg")
Lines ==
    [kind : {"content"}, text : Frags, done : {FALSE}]
        \cup [kind : {"content"}, text : {<<>>}, done : {TRUE}]
        \cup [kind : {"blank", "bad", "undecodable", "nomsg"}, text : {<<>>}, done : {FALSE}]

\* the lines that are not valid JSON
NotJson == {line \in Lines : line.kind \in {"bad", "undecodable"}}

Msg(role, content) == [role |-> role, content |-> content]

\* the system message of the retrieved context: its content is the prefix
\* followed by the context
RagMessage(context) ==
    [role |-> "system", content |-> <<RagPrefix>>, context |-> context, images |-> FALSE]

\* the user message that carries the attached image
ImageMessage(prompt) ==
    [role |-> "user", content |-> prompt, context |-> <<>>, images |-> TRUE]

\* what retriever.invoke(prompt) returns: the lengths of the documents found
\* (k = 5 at most)
Retrievers == {<<>>, <<3>>, <<2500, 2500>>}

\* one pipeline step (an entry of a crew's config); a template is text whose
\* atoms may be replacement fields
Agent(role, sys, tmpl) == [role |-> role, system_prompt |-> sys, input_prompt |-> tmpl]
Prev == "{previous}"
CrewConfigs ==
    { << Agent("Researcher", <<"s">>, <<"Research: ", Prev>>),
         Agent("Analyzer", <<>>, <<"Answer: ", Prev>>) >>,
      << Agent("Writer", <<>>, <<Prev>>),
         Agent("Coder", <<>>, <<"{x}">>) >> }

\* ------------------------------------------------------------------- state
VARIABLES
    thread,                   \* OllamaGUI.thread: 0 is None, else a worker
    current_conversation_id,  \* 0 is None
    last_user_prompt,
    advanced_mode,
    current_crew_config,      \* <<>> is []
    stop_reload_btn,          \* [text, enabled]
    conversations,            \* ids of the rows of table conversations
    next_cid,                 \* next AUTOINCREMENT / SERIAL id
    messages,                 \* rows of table messages, in id order
    workers,                  \* the worker objects, by creation order
    queue,                    \* signals posted to the UI thread, not yet handled
    timers,                   \* workers whose watchdog single-shot is pending
    persisted,                \* per worker: what its finished event stored
    aborted,                  \* the process was ended by an uncaught exception
    nsend,                    \* prompts accepted by send() so far
    limits,                   \* what the environment does at most: prompts
                              \* submitted, content lines per response
    retriever,                \* OllamaGUI.retriever: [set, docs], set FALSE is None
    attached_image_base64,    \* an image is attached (FALSE is None)
    added,                    \* every add_message call so far, in order
    db_calls,                 \* the calls of self.db methods made so far: which
                              \* method, whether db_mutex was held, by which thread
    mgr,                      \* the model manager window (src/ollama_manager.py)
    crews,                    \* table crews: [rows, next_id], a row being [id, name, config]
    current_crew_id,          \* 0 is None
    current_crew_name,        \* "" is None
    rag                       \* the indexing worker (RAGWorker) and the RAG controls

vars == << thread, current_conversation_id, last_user_prompt, advanced_mode,
           current_crew_config, stop_reload_btn, conversations, next_cid,
           messages, workers, queue, timers, persisted, aborted, nsend,
           limits, retriever, attached_image_base64, added, db_calls, mgr,
           crews, current_crew_id, current_crew_name, rag >>

guiVars == << thread, current_conversation_id, last_user_prompt, advanced_mode,
              current_crew_config, stop_reload_btn >>
storeVars == << conversations, next_cid, messages, added >>
dbVars == << storeVars, db_calls >>
crewVars == << crews, current_crew_id, current_crew_name >>
envVars == << limits, retriever, attached_image_base64, mgr, crewVars, rag >>

\* a worker object that has not been constructed yet
NoWorker ==
    [kind |-> "none", pc |-> "new", running |-> TRUE,
     messages |-> <<>>, response |-> <<>>, chunk_count |-> 0,
     buffer |-> <<>>, flushed |-> FALSE,
     user_prompt |-> <<>>, crew_config |-> <<>>, history_messages |-> <<>>,
     i |-> 0, previous |-> <<>>, output |-> <<>>,
     terminal |-> <<>>, tokens |-> <<>>, late |-> FALSE,
     recv |-> <<>>, stopAt |-> -1, stopPc |-> "none", dropped |-> FALSE,
     requests |-> <<>>, inflight |-> {}, stopObs |-> 0, raw |-> <<>>,
     sent |-> <<>>, doneRead |-> FALSE, afterDone |-> FALSE, afterStop |-> 0]

\* DirectOllamaThread.__init__ with a fragment counter shared by the workers
DirectInitShared(msgs) ==
    [NoWorker EXCEPT !.kind = "direct", !.pc = "start", !.messages = msgs,
                     !.chunk_count = nsend]

\* DirectOllamaThread.__init__
DirectInit(msgs) ==
    [NoWorker EXCEPT !.kind = "direct", !.pc = "start", !.messages = msgs]

\* run(): the report's first lines
ReportHead(prompt) ==
    <<"# OLLAMA CUSTOM CREW REPORT\n\n**User Request:** ">> \o prompt \o <<"\n\n---\n\n">>

\* CustomCrewThread.__init__, and run() up to the loop
CrewInit(prompt, cfg, history) ==
    [NoWorker EXCEPT !.kind = "crew", !.pc = "loop", !.user_prompt = prompt,
                     !.crew_config = cfg, !.history_messages = history, !.i = 1,
                     !.previous = prompt,
                     !.output = ReportHead(prompt)]

\* the conversation the store holds when the application starts
StoredMessages ==
    [k \in 1..StoredLen |->
        Msg(IF k % 2 = 1 THEN "user" ELSE "assistant",
            << <<"h1", "h2", "h3", "h4", "h5", "h6", "h7", "h8", "h9", "h10",
                 "h11", "h12">>[k] >>)]

StoredRows == [k \in 1..StoredLen |-> [cid |-> 1] @@ StoredMessages[k]]

\* ------------------------------------------------------- persistence calls
\* a call of a method of self.db in a method of the window (which the UI thread
\* runs), inside or outside a with QMutexLocker(self.db_mutex) block
DbCall(op, locked) == [op |-> op, locked |-> locked, by |-> "ui"]

\* __init__: get_default_crew_config(), refresh_conversations(),
\* refresh_crews_list()
InitCalls ==
    {DbCall("get_default_crew_config", FALSE), DbCall("list_conversations", FALSE),
     DbCall("list_crews", FALSE)}

\* select_crew_from_list(): get_crew()
SelectCalls == {DbCall("get_crew", FALSE)}

\* send(): create_conversation() and refresh_conversations() when there is no
\* current conversation, then add_message() and get_messages()
SendCalls(created) ==
    (IF created
     THEN {DbCall("create_conversation", TRUE), DbCall("list_conversations", FALSE)}
     ELSE {})
        \cup {DbCall("add_message", TRUE), DbCall("get_messages", TRUE)}

\* load_conversation(): get_messages()
LoadCalls == {DbCall("get_messages", TRUE)}

\* show_conv_menu(), Delete: delete_conversation(), refresh_conversations()
DeleteCalls == {DbCall("delete_conversation", TRUE), DbCall("list_conversations", FALSE)}

\* on_generation_finished() with add_message() called outside the with block
FinishedCallsUnlocked == {DbCall("add_message", FALSE)}

\* on_generation_finished(): add_message()
FinishedCalls == {DbCall("add_message", TRUE)}

\* ----------------------------------------------------------- OllamaManager
\* The manager window after __init__: the widgets as init_ui() leaves them and
\* the single-shot timer of check_server_status pending.  process is 0 for
\* None, else the number of the subprocess; serve and pulls are the background
\* threads started so far; mq holds the signals emitted by background threads
\* and not yet delivered; direct is the set of widgets that a background
\* thread has used itself.
MgrInit ==
    [process |-> 0, spawned |-> 0, alive |-> {},
     server_ready |-> FALSE,
     status_label |-> "Checking", serve_btn |-> "Start", refresh_btn |-> FALSE,
     model_list |-> "empty",
     is_signed_in |-> FALSE, signin_btn |-> TRUE, signout_btn |-> FALSE,
     push_btn |-> FALSE, current_selected_model |-> "", rm_btn |-> FALSE,
     removed |-> FALSE,
     auth_poll |-> FALSE, auth_auto |-> 0,
     pending |-> {"status"},
     serve |-> <<>>, pulls |-> <<>>,
     progress |-> [visible |-> FALSE, value |-> 0],
     mq |-> <<>>, direct |-> {}]

\* the indexing worker of add_rag_knowledge and the RAG controls of the window
\* as __init__ leaves them: emitted lists the progress events of the worker,
\* q the signals of the worker not yet handled, cancelled and before remember
\* that cancel_rag stopped the worker and the retriever the run started with,
\* ended how run() was left ("finished", "error", or "returned" without a signal)
RagInit ==
    [pc |-> "none", running |-> TRUE, paths |-> 0, i |-> 0, total |-> 0,
     emitted |-> <<>>, q |-> <<>>, cancelled |-> FALSE, ended |-> "none",
     before |-> [set |-> FALSE, docs |-> <<>>],
     rag_btn |-> TRUE, cancel_visible |-> FALSE, clear_btn |-> FALSE,
     bar |-> [visible |-> FALSE, value |-> -1, maximum |-> 100]]

\* the window after __init__, in a session bounded by l
Constructed(l) ==
    /\ thread = 0
    /\ current_conversation_id = 0
    /\ last_user_prompt = <<>>
    /\ advanced_mode = FALSE
    /\ current_crew_config = <<>>
    /\ stop_reload_btn = [text |-> "Stop", enabled |-> FALSE]
    /\ conversations = {1} /\ next_cid = 2 /\ messages = StoredRows
    /\ added = StoredRows
    /\ db_calls = InitCalls
    /\ workers = [w \in Workers |-> NoWorker]
    /\ queue = <<>>
    /\ timers = {}
    /\ persisted = [w \in Workers |-> <<>>]
    /\ aborted = FALSE
    /\ nsend = 0
    /\ limits = l
    /\ retriever = [set |-> FALSE, docs |-> <<>>]
    /\ attached_image_base64 = FALSE
    /\ mgr = MgrInit
    /\ crews = [rows |-> {}, next_id |-> 1, rejected |-> ""]
    /\ current_crew_id = 0
    /\ current_crew_name = ""
    /\ rag = RagInit

\* a session of several prompts
Init == Constructed([sends |-> MaxSends, lines |-> BurstLines, starts |-> MaxStarts, pulls |-> MaxPulls])

\* a session of two prompts
TwoPrompts == [sends |-> 2, lines |-> BurstLines, starts |-> MaxStarts, pulls |-> MaxPulls]
InitTwice == Constructed(TwoPrompts)

\* a session of one prompt
OnePrompt == [sends |-> 1, lines |-> MaxLines, starts |-> MaxStarts, pulls |-> MaxPulls]
InitDirect == Constructed(OnePrompt)

\* ------------------------------------------------------------------- store
\* add_message: a row appended in id order
AddMessage(rows, cid, role, content) ==
    Append(rows, [cid |-> cid, role |-> role, content |-> content])

\* get_messages without its WHERE clause
GetMessagesOfAll(rows, cid) ==
    [k \in 1..Len(rows) |-> Msg(rows[k].role, rows[k].content)]

\* get_messages: role and content of the rows of cid, ORDER BY id ASC (no row
\* is selected by WHERE conversation_id = NULL)
GetMessages(rows, cid) ==
    LET idx == {k \in 1..Len(rows) : cid # 0 /\ rows[k].cid = cid}
        RECURSIVE Collect(_)
        Collect(k) ==
            IF k > Len(rows) THEN <<>>
            ELSE IF k \in idx THEN <<Msg(rows[k].role, rows[k].content)>> \o Collect(k + 1)
            ELSE Collect(k + 1)
    IN  Collect(1)

\* delete_conversation: the conversation's row and the messages that name it
\* (DELETE ... WHERE conversation_id = ?  /  ON DELETE CASCADE)
DeleteRows(rows, cid) == SelectSeq(rows, LAMBDA r : r.cid # cid)

\* ------------------------------------------------------------------ window
\* QThread.isRunning(): from start() until run() has returned
IsRunningThread(w) == workers[w].pc \notin {"new", "done", "crashed"}

\* update_stop_reload_button(is_running), with the value last_user_prompt has
\* when it is called
StopReloadButton(is_running, prompt) ==
    [text |-> IF is_running THEN "Stop" ELSE "Reload",
     enabled |-> is_running \/ prompt # <<>>]

\* the next worker object to be constructed
FreshWorker == CHOOSE w \in Workers : workers[w].pc = "new" /\ \A v \in 1..(w - 1) : workers[v].pc # "new"
CanCreate == nsend < limits.sends

\* send(): crew_cfg[0]['system_prompt'] = (... + "\n\n" + rag_block).strip()
WithRag(cfg, context) ==
    [cfg EXCEPT ![1] = [role |-> @.role,
                        system_prompt |-> Strip(@.system_prompt \o <<"\n\n", RagPrefix>>),
                        input_prompt |-> @.input_prompt,
                        context |-> context]]

\* send(), with `typed` the content of the input box
SendBody(typed) ==
    LET prompt == Strip(typed)
        created == current_conversation_id = 0
        cid == IF created THEN next_cid ELSE current_conversation_id
        rows == AddMessage(messages, cid, "user", prompt)
        max_hist == IF advanced_mode THEN MaxHistCrew ELSE MaxHistSingle
        history == LastN(GetMessages(rows, cid), max_hist)
        withImage == IF attached_image_base64
                     THEN Append(history, ImageMessage(prompt)) ELSE history
        docs == retriever.docs
        found == retriever.set /\ docs # <<>>
        context == Take(JoinDocs(docs), MaxContext)
        ollama_messages == IF found THEN InsertBeforeLast(withImage, RagMessage(context))
                           ELSE withImage
        crew_cfg == IF retriever.set THEN WithRag(current_crew_config, context)
                    ELSE current_crew_config
        w == FreshWorker
        ghost == <<[prompt |-> prompt, cid |-> cid, stored |-> GetMessages(messages, cid),
                    retriever |-> retriever, image |-> attached_image_base64]>>
    IN  IF prompt = <<>>
        THEN UNCHANGED vars
        ELSE /\ last_user_prompt' = prompt
             /\ current_conversation_id' = cid
             /\ conversations' = IF created THEN conversations \cup {cid} ELSE conversations
             /\ next_cid' = IF created THEN next_cid + 1 ELSE next_cid
             /\ messages' = rows
             /\ added' = AddMessage(added, cid, "user", prompt)
             /\ db_calls' = db_calls \cup SendCalls(created)
             /\ nsend' = nsend + 1
             /\ UNCHANGED << advanced_mode, current_crew_config, queue, persisted,
                             limits, retriever, mgr, crewVars, rag >>
             /\ IF advanced_mode /\ current_crew_config = <<>>
                THEN /\ stop_reload_btn' = StopReloadButton(FALSE, prompt)
                     /\ UNCHANGED << thread, workers, timers, aborted,
                                     attached_image_base64 >>
                ELSE IF advanced_mode /\ retriever.set /\ docs = <<>>
                THEN \* rag_block is read without having been assigned: the
                     \* exception leaves send()
                     /\ stop_reload_btn' = StopReloadButton(TRUE, prompt)
                     /\ aborted' \in BOOLEAN
                     /\ UNCHANGED << thread, workers, timers, attached_image_base64 >>
                ELSE /\ stop_reload_btn' = StopReloadButton(TRUE, prompt)
                     /\ thread' = w
                     /\ workers' = [workers EXCEPT ![w] =
                            [(IF advanced_mode
                              THEN CrewInit(prompt, crew_cfg, history)
                              ELSE DirectInit(ollama_messages))
                             EXCEPT !.sent = ghost]]
                     /\ timers' = timers \cup {w}
                     /\ attached_image_base64' = FALSE
                     /\ UNCHANGED aborted

\* the Send button (always enabled) with some text typed
Send(typed) ==
    /\ ~aborted
    /\ CanCreate
    /\ SendBody(typed)

\* stop() that flips the flag
StopWorkerToggle(ws, w) ==
    [ws EXCEPT ![w].running = ~@,
               ![w].stopAt = IF ws[w].running THEN Len(ws[w].recv) ELSE @,
               ![w].stopPc = IF ws[w].running THEN ws[w].pc ELSE @]

\* stop(): the flag is cleared under the worker's mutex; stopAt and stopPc
\* record how many fragments the worker had accumulated, and where it was, at
\* the first call
StopWorker(ws, w) ==
    [ws EXCEPT ![w].running = FALSE,
               ![w].stopAt = IF ws[w].running THEN Len(ws[w].recv) ELSE @,
               ![w].stopPc = IF ws[w].running THEN ws[w].pc ELSE @]

\* stop_or_reload(): the Stop / Reload button
StopOrReload ==
    /\ ~aborted
    /\ stop_reload_btn.enabled
    /\ IF thread # 0 /\ IsRunningThread(thread)
       THEN /\ workers' = StopWorker(workers, thread)
            /\ stop_reload_btn' = StopReloadButton(FALSE, last_user_prompt)
            /\ UNCHANGED << thread, current_conversation_id, last_user_prompt,
                            advanced_mode, current_crew_config, dbVars, queue,
                            timers, persisted, aborted, nsend, envVars >>
       ELSE IF last_user_prompt # <<>> /\ current_conversation_id # 0
            THEN CanCreate /\ SendBody(last_user_prompt)
            ELSE UNCHANGED vars

\* new_chat()
NewChat ==
    /\ ~aborted
    /\ current_conversation_id' = 0
    /\ last_user_prompt' = <<>>
    /\ stop_reload_btn' = StopReloadButton(FALSE, <<>>)
    /\ UNCHANGED << thread, advanced_mode, current_crew_config, dbVars, workers,
                    queue, timers, persisted, aborted, nsend, envVars >>

\* load_conversation(item): a click on an entry of the conversation list
LoadConversation(c) ==
    LET msgs == GetMessages(messages, c)
        prompt == IF msgs # <<>> /\ msgs[Len(msgs)].role = "user"
                  THEN msgs[Len(msgs)].content ELSE last_user_prompt
    IN  /\ ~aborted
        /\ c \in conversations
        /\ current_conversation_id' = c
        /\ last_user_prompt' = prompt
        /\ stop_reload_btn' = StopReloadButton(FALSE, prompt)
        /\ db_calls' = db_calls \cup LoadCalls
        /\ UNCHANGED << thread, advanced_mode, current_crew_config, storeVars,
                        workers, queue, timers, persisted, aborted, nsend, envVars >>

\* show_conv_menu(), Delete: delete_conversation(cid), then new_chat()
DeleteConversation(c) ==
    /\ ~aborted
    /\ c \in conversations
    /\ conversations' = conversations \ {c}
    /\ messages' = DeleteRows(messages, c)
    /\ UNCHANGED added
    /\ db_calls' = db_calls \cup DeleteCalls
    /\ current_conversation_id' = 0
    /\ last_user_prompt' = <<>>
    /\ stop_reload_btn' = StopReloadButton(FALSE, <<>>)
    /\ UNCHANGED << thread, advanced_mode, current_crew_config, next_cid,
                    workers, queue, timers, persisted, aborted, nsend, envVars >>

\* toggle_advanced_mode()
ToggleAdvancedMode ==
    /\ ~aborted
    /\ advanced_mode' = ~advanced_mode
    /\ UNCHANGED << thread, current_conversation_id, last_user_prompt,
                    current_crew_config, stop_reload_btn, dbVars, workers,
                    queue, timers, persisted, aborted, nsend, envVars >>

\* ------------------------------------------------------------------- crews
\* the names a crew may be given
CrewNames == {"A", "B"}

\* the row of table crews with id, and whether another row has the name
\* (name TEXT UNIQUE)
CrewRow(tb, id) == CHOOSE r \in tb.rows : r.id = id
NameTaken(tb, name, id) == \E r \in tb.rows : r.name = name /\ r.id # id

\* the statement raises IntegrityError: the table is as it was; rejected is the
\* name the constraint refused last
Rejected(tb, name) == [ok |-> FALSE, tb |-> [tb EXCEPT !.rejected = name]]

\* an INSERT that takes any name
CreateCrewAnyName(tb, name, config) ==
    [ok |-> TRUE,
     tb |-> [tb EXCEPT !.rows = @ \cup {[id |-> tb.next_id, name |-> name, config |-> config,
                                             is_default |-> FALSE]},
                       !.next_id = @ + 1]]

\* create_crew(name, config): INSERT; ok is FALSE when the statement raises
\* IntegrityError
CreateCrew(tb, name, config) ==
    IF NameTaken(tb, name, 0) THEN Rejected(tb, name)
    ELSE [ok |-> TRUE,
          tb |-> [tb EXCEPT !.rows = @ \cup {[id |-> tb.next_id, name |-> name, config |-> config,
                                             is_default |-> FALSE]},
                            !.next_id = @ + 1]]

\* update_crew(crew_id, name, config): UPDATE ... WHERE id = ?
UpdateCrew(tb, id, name, config) ==
    IF NameTaken(tb, name, id) THEN Rejected(tb, name)
    ELSE [ok |-> TRUE,
          tb |-> [tb EXCEPT !.rows = {IF r.id = id
                                      THEN [r EXCEPT !.name = name, !.config = config]
                                      ELSE r : r \in tb.rows}]]

\* update_crew_name(crew_id, name)
UpdateCrewName(tb, id, name) ==
    IF NameTaken(tb, name, id) THEN Rejected(tb, name)
    ELSE [ok |-> TRUE,
          tb |-> [tb EXCEPT !.rows = {IF r.id = id THEN [r EXCEPT !.name = name] ELSE r :
                                        r \in tb.rows}]]

\* delete_crew(crew_id)
DeleteCrewRow(tb, id) == [tb EXCEPT !.rows = {r \in tb.rows : r.id # id}]

\* set_default_crew(crew_id) that only marks the crew
SetDefaultCrewRowOnly(tb, id) ==
    [tb EXCEPT !.rows = {[r EXCEPT !.is_default = @ \/ r.id = id] : r \in tb.rows}]

\* set_default_crew(crew_id): UPDATE crews SET is_default = 0, then
\* UPDATE crews SET is_default = 1 WHERE id = ?
SetDefaultCrewRow(tb, id) ==
    [tb EXCEPT !.rows = {[r EXCEPT !.is_default = (r.id = id)] : r \in tb.rows}]

\* get_default_crew_config(): SELECT config ... WHERE is_default = 1 LIMIT 1;
\* the results are the configs the statement can return, <<>> standing for None
GetDefaultCrewConfig(tb) ==
    IF \E r \in tb.rows : r.is_default
    THEN {r.config : r \in {s \in tb.rows : s.is_default}}
    ELSE {<<>>}

\* a handler of the crew list ends: the table, the selected crew and the calls
\* it made; raised says that the store raised an exception, which no handler
\* catches
CrewHandled(tb, id, name, config, calls, raised) ==
    /\ crews' = tb
    /\ current_crew_id' = id
    /\ current_crew_name' = name
    /\ current_crew_config' = config
    /\ db_calls' = db_calls \cup calls
    /\ aborted' \in (IF raised THEN BOOLEAN ELSE {aborted})
    /\ UNCHANGED << thread, current_conversation_id, last_user_prompt, advanced_mode,
                    stop_reload_btn, storeVars, workers, queue, timers, persisted,
                    nsend, limits, retriever, attached_image_base64, mgr, rag >>

\* the handler returns by an exception of the store: nothing is assigned
CrewRaised(tb, calls) ==
    CrewHandled(tb, current_crew_id, current_crew_name, current_crew_config, calls, TRUE)

\* select_crew_from_list(item)
SelectCrew(id) ==
    /\ ~aborted
    /\ \E r \in crews.rows : r.id = id
    /\ LET crew == CrewRow(crews, id)
       IN  CrewHandled(crews, id, crew.name, crew.config, SelectCalls, FALSE)

\* set_default_crew(crew_id), from the menu of a listed crew
SetDefaultCrew(id) ==
    /\ ~aborted
    /\ \E r \in crews.rows : r.id = id
    /\ LET tb == SetDefaultCrewRow(crews, id)
           crew == CrewRow(tb, id)
       IN  CrewHandled(tb, id, crew.name, crew.config,
                       {DbCall("get_crew", FALSE), DbCall("set_default_crew", TRUE),
                        DbCall("get_crew", TRUE), DbCall("list_crews", FALSE)}, FALSE)

\* create_new_crew(): the dialog is accepted with a name and a config
CreateNewCrew(name, config) ==
    LET res == CreateCrew(crews, name, config)
    IN  /\ ~aborted
        /\ res.ok => crews.next_id <= MaxCrews
        /\ IF res.ok
           THEN CrewHandled(res.tb, crews.next_id, name, config,
                            {DbCall("create_crew", TRUE), DbCall("list_crews", FALSE)}, FALSE)
           ELSE CrewRaised(res.tb, {DbCall("create_crew", TRUE)})

\* show_crew_menu(), Rename: a name that is not empty and not the crew's own
RenameCrew(id, new_name) ==
    /\ ~aborted
    /\ \E r \in crews.rows : r.id = id
    /\ new_name # CrewRow(crews, id).name
    /\ LET res == UpdateCrewName(crews, id, new_name)
       IN  IF res.ok
           THEN CrewHandled(res.tb, current_crew_id,
                            IF id = current_crew_id THEN new_name ELSE current_crew_name,
                            current_crew_config,
                            {DbCall("get_crew", FALSE), DbCall("update_crew_name", TRUE),
                             DbCall("list_crews", FALSE)}, FALSE)
           ELSE CrewRaised(res.tb, {DbCall("get_crew", FALSE), DbCall("update_crew_name", TRUE)})

\* edit_crew(crew_id): the dialog is accepted with a name and a config
EditCrew(id, name, new_config) ==
    /\ ~aborted
    /\ \E r \in crews.rows : r.id = id
    /\ LET res == UpdateCrew(crews, id, name, new_config)
           current == id = current_crew_id
       IN  IF res.ok
           THEN CrewHandled(res.tb, current_crew_id,
                            IF current THEN name ELSE current_crew_name,
                            IF current THEN new_config ELSE current_crew_config,
                            {DbCall("get_crew", FALSE), DbCall("update_crew", TRUE),
                             DbCall("list_crews", FALSE)}, FALSE)
           ELSE CrewRaised(res.tb, {DbCall("get_crew", FALSE), DbCall("update_crew", TRUE)})

\* delete_crew(crew_id), confirmed
DeleteCrew(id) ==
    /\ ~aborted
    /\ \E r \in crews.rows : r.id = id
    /\ LET current == id = current_crew_id
       IN  CrewHandled(DeleteCrewRow(crews, id),
                       IF current THEN 0 ELSE current_crew_id,
                       IF current THEN "" ELSE current_crew_name,
                       IF current THEN <<>> ELSE current_crew_config,
                       {DbCall("get_crew", FALSE), DbCall("delete_crew", TRUE),
                        DbCall("list_crews", FALSE)}, FALSE)

\* attach_image(): a file was chosen and read
AttachImage ==
    /\ ~aborted
    /\ attached_image_base64' = TRUE
    /\ UNCHANGED << guiVars, dbVars, workers, queue, timers, persisted, aborted,
                    nsend, limits, retriever, mgr, crewVars, rag >>

\* on_rag_finished(retriever): the indexing worker hands over its retriever
RagFinishedOn(r, docs) ==
    /\ retriever' = [set |-> TRUE, docs |-> docs]
    /\ rag' = [r EXCEPT !.cancel_visible = FALSE, !.bar.visible = FALSE,
                        !.rag_btn = TRUE, !.clear_btn = TRUE]
    /\ UNCHANGED << guiVars, dbVars, workers, queue, timers, persisted, aborted,
                    nsend, limits, attached_image_base64, mgr, crewVars >>

OnRagFinished(docs) ==
    /\ ~aborted
    /\ RagFinishedOn(rag, docs)

\* ---------------------------------------------------------------- RAGWorker
\* the numbers of new chunks an indexing run may find
Totals == {n \in 0..MaxChunks : n % 5 = 0}

\* QThread.isRunning() of rag_worker
RagIsRunning == rag.pc \notin {"none", "done"}

\* a step of the window or the worker that changes only rag
RagOnly(r) ==
    /\ rag' = r
    /\ UNCHANGED << guiVars, dbVars, workers, queue, timers, persisted, aborted,
                    nsend, limits, retriever, attached_image_base64, mgr, crewVars >>

\* add_rag_knowledge() with n paths chosen
AddRagKnowledge(n) ==
    /\ ~aborted
    /\ rag.rag_btn /\ rag.pc = "none"
    /\ RagOnly([rag EXCEPT !.rag_btn = FALSE, !.cancel_visible = TRUE,
                           !.bar.visible = TRUE, !.bar.value = 0,
                           !.pc = "loading", !.paths = n, !.before = retriever])

\* RAGWorker.run(): one turn of for p in self.paths
RagLoadFile ==
    /\ ~aborted
    /\ rag.pc = "loading" /\ rag.paths > 0
    /\ RagOnly(IF ~rag.running THEN [rag EXCEPT !.pc = "done", !.ended = "returned"]
               ELSE [rag EXCEPT !.paths = @ - 1])

\* signal.emit(...) of the worker
RagEmit(r, ev) == [r EXCEPT !.q = Append(@, ev)]
RagProgress(r, done, total) ==
    LET ev == [type |-> "progress", done |-> done, total |-> total]
    IN  [RagEmit(r, ev) EXCEPT !.emitted = Append(@, ev)]

\* RAGWorker.run(): after the paths, the chunks are split and compared with
\* the stored ones, and progress (0, len(new_chunks)) is emitted
RagLoaded(total) ==
    /\ ~aborted
    /\ rag.pc = "loading" /\ rag.paths = 0
    /\ RagOnly(IF ~rag.running THEN [rag EXCEPT !.pc = "done", !.ended = "returned"]
               ELSE [RagProgress(rag, 0, total) EXCEPT
                        !.pc = "batch", !.i = 0, !.total = total])

\* RAGWorker.run(): one turn of for i in range(0, len(new_chunks), batch_size),
\* and finished.emit when the range is exhausted
RagBatched(r) ==
    IF r.i < r.total
    THEN IF ~r.running THEN [r EXCEPT !.pc = "done", !.ended = "returned"]
         ELSE [RagProgress(r, r.i + BatchSize, r.total) EXCEPT !.i = @ + BatchSize]
    ELSE [RagEmit(r, [type |-> "finished", done |-> 0, total |-> 0])
            EXCEPT !.pc = "done", !.ended = "finished"]

RagBatch ==
    /\ ~aborted
    /\ rag.pc = "batch"
    /\ RagOnly(RagBatched(rag))

\* RAGWorker.run(): an exception of the embedding or the vector store
RagFail ==
    /\ ~aborted
    /\ rag.pc \in {"loading", "batch"} /\ rag.paths = 0
    /\ RagOnly([RagEmit(rag, [type |-> "error", done |-> 0, total |-> 0])
                    EXCEPT !.pc = "done", !.ended = "error"])

\* cancel_rag()
CancelRag ==
    /\ ~aborted
    /\ rag.cancel_visible
    /\ LET r == IF RagIsRunning
                THEN [rag EXCEPT !.running = FALSE, !.cancelled = TRUE] ELSE rag
       IN  RagOnly([r EXCEPT !.cancel_visible = FALSE, !.bar.visible = FALSE,
                             !.bar.value = -1, !.rag_btn = TRUE])

\* update_rag_progress(done, total): setMaximum resets a value that falls out
\* of the range, setValue ignores a value out of the range
UpdateRagProgress(r, done, total) ==
    LET kept == IF r.bar.value > total THEN -1 ELSE r.bar.value
    IN  [r EXCEPT !.bar.maximum = total,
                  !.bar.value = IF done <= total THEN done ELSE kept]

\* on_rag_error(err)
OnRagError(r) ==
    [r EXCEPT !.cancel_visible = FALSE, !.bar.visible = FALSE, !.rag_btn = TRUE]

\* the UI thread delivers the oldest signal of the indexing worker to its slot
RagDeliver ==
    /\ ~aborted
    /\ rag.q # <<>>
    /\ LET ev == Head(rag.q)
           r == [rag EXCEPT !.q = Tail(@)]
       IN  CASE ev.type = "progress" -> RagOnly(UpdateRagProgress(r, ev.done, ev.total))
             [] ev.type = "error" -> RagOnly(OnRagError(r))
             [] OTHER -> \E docs \in Retrievers : RagFinishedOn(r, docs)

\* QTimer.singleShot(600000, self.thread.stop): the bound method of the worker
\* that send() had just started
WatchdogFire(w) ==
    /\ ~aborted
    /\ w \in timers
    /\ timers' = timers \ {w}
    /\ workers' = StopWorker(workers, w)
    /\ UNCHANGED << guiVars, dbVars, queue, persisted, aborted, nsend, envVars >>

\* ----------------------------------------------------------------- signals
Event(w, type, text, chunks) == [w |-> w, type |-> type, text |-> text, chunks |-> chunks]

\* signal.emit(...) from a worker thread.  The record keeps what the worker has
\* emitted so far: its finished and error signals in order (terminal), the
\* concatenated payloads of its token signals (tokens), and whether anything
\* was emitted after a finished or error signal (late).
RECURSIVE Emitted(_, _)
Emitted(rec, evs) ==
    IF evs = <<>> THEN rec
    ELSE LET e == Head(evs)
             r1 == [rec EXCEPT
                     !.late = @ \/ rec.terminal # <<>>,
                     !.terminal = IF e.type = "token" THEN @ ELSE Append(@, e),
                     !.tokens = IF e.type = "token" THEN @ \o e.text ELSE @]
         IN  Emitted(r1, Tail(evs))

\* self.thread.deleteLater() in a slot: the QThread object is destroyed when
\* control returns to the event loop.  Destroying a QThread whose run() has
\* not returned ends the process ("QThread: Destroyed while thread is still
\* running"), unless run() returns before the deferred delete is delivered.
DeleteLater ==
    aborted' \in (IF thread # 0 /\ IsRunningThread(thread) THEN BOOLEAN ELSE {aborted})

\* on_generation_finished(response, elapsed, chunks), as the slot of worker w
OnGenerationFinished(w, response) ==
    LET stopped == thread # 0 /\ ~workers[thread].running
        final == IF stopped THEN response \o StopMarker ELSE response
    IN  /\ IF response # <<>>
           THEN /\ messages' = AddMessage(messages, current_conversation_id, "assistant", final)
                /\ added' = AddMessage(added, current_conversation_id, "assistant", final)
                /\ persisted' = [persisted EXCEPT ![w] =
                        Append(@, [cid |-> current_conversation_id, content |-> final,
                                   holder |-> thread, stopped |-> stopped,
                                   cancelled |-> ~workers[w].running])]
                /\ db_calls' = db_calls \cup FinishedCalls
           ELSE UNCHANGED << messages, added, persisted, db_calls >>
        /\ stop_reload_btn' = StopReloadButton(FALSE, last_user_prompt)
        /\ DeleteLater
        /\ thread' = 0
        /\ UNCHANGED << current_conversation_id, last_user_prompt, advanced_mode,
                        current_crew_config, conversations, next_cid, workers,
                        timers, nsend, envVars >>

\* show_error(e)
ShowError ==
    /\ stop_reload_btn' = StopReloadButton(FALSE, last_user_prompt)
    /\ DeleteLater
    /\ thread' = 0
    /\ UNCHANGED << current_conversation_id, last_user_prompt, advanced_mode,
                    current_crew_config, dbVars, workers, timers, persisted, nsend, envVars >>

\* append_token(text): only the chat display changes
AppendToken ==
    UNCHANGED << guiVars, dbVars, workers, timers, persisted, aborted, nsend, envVars >>

\* the UI thread's event loop delivers the oldest posted signal to its slot
HandleEvent ==
    /\ ~aborted
    /\ queue # <<>>
    /\ queue' = Tail(queue)
    /\ LET e == Head(queue)
       IN  CASE e.type = "token" -> AppendToken
             [] e.type = "finished" -> OnGenerationFinished(e.w, e.text)
             [] e.type = "error" -> ShowError

\* ------------------------------------------------------ DirectOllamaThread
\* A step of a worker yields the worker's next record and the signals it emits.
Step(rec, evs) == [rec |-> Emitted(rec, evs), evs |-> evs]

\* the worker takes a step: its record is replaced and its signals are posted
Advance(w, st) ==
    /\ workers' = [workers EXCEPT ![w] = st.rec]
    /\ queue' = queue \o st.evs
    /\ UNCHANGED << guiVars, dbVars, timers, persisted, aborted, nsend, envVars >>

\* ReadLine with the fragment added to the response only when it is flushed
ReadLineLossy(rec, w, line, flushNow, breakOnDone) ==
    IF ~rec.running
    THEN Step([rec EXCEPT !.pc = "flush", !.afterStop = @ + 1,
                         !.dropped = @ \/ (line.kind = "content" /\ line.text # <<>>)],
              <<>>)
    ELSE IF line.kind # "content"
    THEN Step(rec, <<>>)
    ELSE LET buf == rec.buffer \o line.text
             doFlush == flushNow \/ ~rec.flushed
         IN  Step([rec EXCEPT
                     !.response = IF doFlush THEN @ \o line.text ELSE @,
                     !.chunk_count = @ + 1,
                     !.recv = Append(@, line.text),
                     !.doneRead = @ \/ line.done,
                     !.afterDone = @ \/ rec.doneRead,
                     !.buffer = IF doFlush THEN <<>> ELSE buf,
                     !.flushed = @ \/ doFlush,
                     !.pc = IF line.done /\ breakOnDone THEN "flush" ELSE @],
                  IF doFlush THEN <<Event(w, "token", buf, 0)>> ELSE <<>>)

\* the body of the read loop for one line (shared by run() and
\* run_agent_inline(), which differ in the break on done); flushNow says
\* whether more than 0.05 s have passed since last_flush, which is always so
\* while last_flush is still 0.  doneRead says that the current call has read
\* a line with done=true, afterDone that it has used a line's content after
\* that, afterStop how many lines the worker has taken from the transport
\* with its flag down.
ReadLine(rec, w, line, flushNow, breakOnDone) ==
    IF ~rec.running
    THEN Step([rec EXCEPT !.pc = "flush", !.afterStop = @ + 1,
                         !.dropped = @ \/ (line.kind = "content" /\ line.text # <<>>)],
              <<>>)
    ELSE IF line.kind # "content"
    THEN Step(rec, <<>>)
    ELSE LET buf == rec.buffer \o line.text
             doFlush == flushNow \/ ~rec.flushed
         IN  Step([rec EXCEPT
                     !.response = @ \o line.text,
                     !.chunk_count = @ + 1,
                     !.recv = Append(@, line.text),
                     !.doneRead = @ \/ line.done,
                     !.afterDone = @ \/ rec.doneRead,
                     !.buffer = IF doFlush THEN <<>> ELSE buf,
                     !.flushed = @ \/ doFlush,
                     !.pc = IF line.done /\ breakOnDone THEN "flush" ELSE @],
                  IF doFlush THEN <<Event(w, "token", buf, 0)>> ELSE <<>>)

\* run(): the one call of requests.post(...), recorded with its message list
Posted(rec) ==
    [rec EXCEPT !.requests = Append(@, [step |-> 0, input |-> <<>>,
                                        messages |-> rec.messages])]

\* run(): requests.post(...) and raise_for_status() succeed
DirectPost(w) ==
    /\ ~aborted
    /\ workers[w].kind = "direct" /\ workers[w].pc = "start"
    /\ Advance(w, Step([Posted(workers[w]) EXCEPT !.pc = "reading"], <<>>))

\* run(): the response body ends
DirectEnd(w) ==
    /\ ~aborted
    /\ workers[w].kind = "direct" /\ workers[w].pc = "reading"
    /\ Advance(w, Step([workers[w] EXCEPT !.pc = "flush"], <<>>))

\* run(), after the with block: the last flush and the finished signal
DirectFinished(rec, w) ==
    Step([rec EXCEPT !.pc = "done"],
         (IF rec.buffer # <<>> THEN <<Event(w, "token", rec.buffer, 0)>> ELSE <<>>)
            \o <<Event(w, "finished", Strip(rec.response), rec.chunk_count)>>)

DirectFinish(w) ==
    /\ ~aborted
    /\ workers[w].kind = "direct" /\ workers[w].pc = "flush"
    /\ Advance(w, DirectFinished(workers[w], w))

\* DirectFailed with the request issued again after the error
DirectFailedRetry(rec, w) ==
    Step([(IF rec.pc = "start" THEN Posted(rec) ELSE rec) EXCEPT !.pc = "start"],
         <<Event(w, "error", <<"e">>, 0)>>)

\* run(): the except clause (requests.post or raise_for_status raise: connection
\* error, HTTP error status; or the read of the body raises); run() returns
DirectFailed(rec, w) ==
    Step([(IF rec.pc = "start" THEN Posted(rec) ELSE rec) EXCEPT !.pc = "done"],
         <<Event(w, "error", <<"e">>, 0)>>)

DirectFail(w) ==
    /\ ~aborted
    /\ workers[w].kind = "direct" /\ workers[w].pc \in {"start", "reading"}
    /\ Advance(w, DirectFailed(workers[w], w))

\* line.decode() raises UnicodeDecodeError, which the inner except clause
\* (json.JSONDecodeError) does not catch
Undecodable(rec, line) == rec.running /\ line.kind = "undecodable"

\* run(): iter_lines() yields the next line
DirectLine(w, line, flushNow) ==
    /\ ~aborted
    /\ workers[w].kind = "direct" /\ workers[w].pc = "reading"
    /\ (line.kind = "content" /\ workers[w].running) => workers[w].chunk_count < limits.lines
    /\ Advance(w, IF Undecodable(workers[w], line)
                  THEN DirectFailed(workers[w], w)
                  ELSE ReadLine(workers[w], w, line, flushNow, TRUE))

DirectStep(w) ==
    \/ DirectPost(w)
    \/ \E line \in Lines, flushNow \in BOOLEAN : DirectLine(w, line, flushNow)
    \/ DirectEnd(w)
    \/ DirectFinish(w)
    \/ DirectFail(w)

\* -------------------------------------------------------- CustomCrewThread
\* str.format(previous=previous) on a template: the field {previous} is
\* replaced, {{ and }} are the escapes of a brace, any other field or a lone
\* brace raises (KeyError, IndexError, ValueError)
RECURSIVE Format(_, _)
Format(tmpl, previous) ==
    IF tmpl = <<>> THEN [ok |-> TRUE, text |-> <<>>]
    ELSE LET a == Head(tmpl)
             rest == Format(Tail(tmpl), previous)
         IN  IF a \in {"{x}", "{", "}"} \/ ~rest.ok
             THEN [ok |-> FALSE, text |-> <<>>]
             ELSE [ok |-> TRUE,
                   text |-> (CASE a = Prev -> previous
                               [] a = "{{" -> <<"{">>
                               [] a = "}}" -> <<"}">>
                               [] OTHER -> <<a>>) \o rest.text]

\* "\n".join(texts)
RECURSIVE Join(_)
Join(texts) ==
    IF texts = <<>> THEN <<>>
    ELSE IF Len(texts) = 1 THEN Head(texts)
    ELSE Head(texts) \o <<"\n">> \o Join(Tail(texts))

RECURSIVE Contents(_)
Contents(msgs) == IF msgs = <<>> THEN <<>> ELSE <<Head(msgs).content>> \o Contents(Tail(msgs))

\* run(): [m['content'] for m in history if m['role'] == 'user'][-6:]
UserHistory(history) ==
    LastN(Contents(SelectSeq(history, LAMBDA m : m.role = "user")), UserWindow)

\* run(): the message list of step i
StepMessages(rec, i, input_prompt) ==
    LET agent == rec.crew_config[i]
        system_prompt == Strip(agent.system_prompt)
        user_history == UserHistory(rec.history_messages)
        withHistory ==
            IF i = 1 /\ rec.history_messages # <<>> /\ user_history # <<>>
            THEN input_prompt \o <<"\n\nPrevious user messages:\n">> \o Join(user_history)
            ELSE input_prompt
        system == IF "context" \in DOMAIN agent
                  THEN [role |-> "system", content |-> system_prompt,
                        context |-> agent.context, images |-> FALSE]
                  ELSE Msg("system", system_prompt)
    IN  (IF system_prompt # <<>> THEN <<system>> ELSE <<>>)
            \o <<Msg("user", withHistory)>>

\* run(): output += f"### {role} Output\n{out}\n\n---\n\n"
ReportEntry(role, out) == <<"### ", role, " Output\n">> \o out \o <<"\n\n---\n\n">>

\* a loop that advances by two
NextStepSkip(i) == i + 2

\* run(): the step that follows step i
NextStep(i) == i + 1

\* run_agent_inline(): leaving the with block closes the connection of step i
CloseRequest(inflight, i) == inflight \ {i}

\* CrewFinished with the report emitted as it is
CrewFinishedUnmarked(rec, w) ==
    Step([rec EXCEPT !.pc = "done",
                     !.stopObs = IF ~rec.running /\ @ = 0 THEN rec.i ELSE @],
         <<Event(w, "finished", rec.output, rec.chunk_count)>>)

\* run(), top of the loop with the flag set or the steps exhausted: the
\* finished signal
CrewFinished(rec, w) ==
    LET final == IF rec.running THEN rec.output ELSE rec.output \o StopMarker
    IN  Step([rec EXCEPT !.pc = "done",
                         !.stopObs = IF ~rec.running /\ @ = 0 THEN rec.i ELSE @],
             <<Event(w, "finished", final, rec.chunk_count)>>)

\* run(), top of the loop with a step to run: the step's fields are read, its
\* template rendered, and run_agent_inline() posts the request
CrewBegun(rec, w, text) ==
    LET agent == rec.crew_config[rec.i]
    IN  Step([rec EXCEPT !.pc = "reading", !.response = <<>>, !.doneRead = FALSE,
                         !.requests = Append(@, [step |-> rec.i, input |-> text,
                                                 messages |-> StepMessages(rec, rec.i, text)]),
                         !.inflight = @ \cup {rec.i}],
             <<Event(w, "token", <<"\n[Working...] ", agent.role>>, 0)>>)

CrewLoop(w) ==
    LET rec == workers[w]
    IN  /\ ~aborted
        /\ rec.kind = "crew" /\ rec.pc = "loop"
        /\ IF rec.i > Len(rec.crew_config) \/ ~rec.running
           THEN Advance(w, CrewFinished(rec, w))
           ELSE LET fmt == Format(rec.crew_config[rec.i].input_prompt, rec.previous)
                IN  IF fmt.ok
                    THEN Advance(w, CrewBegun(rec, w, fmt.text))
                    ELSE \* the exception leaves run(): nothing is emitted
                         /\ workers' = [workers EXCEPT ![w].pc = "crashed"]
                         /\ aborted' \in BOOLEAN
                         /\ UNCHANGED << guiVars, dbVars, queue, timers, persisted, nsend, envVars >>

\* run_agent_inline(): the response body ends
CrewEnd(w) ==
    LET rec == workers[w]
    IN  /\ ~aborted
        /\ rec.kind = "crew" /\ rec.pc = "reading"
        /\ Advance(w, Step([rec EXCEPT !.pc = "flush",
                                       !.inflight = CloseRequest(@, rec.i)], <<>>))

\* run_agent_inline(): the except clause
CrewFailed(rec, w) ==
    Step([rec EXCEPT !.pc = "flush", !.inflight = CloseRequest(@, rec.i)],
         <<Event(w, "error", <<"[ERROR in model]">>, 0)>>)

CrewFail(w) ==
    /\ ~aborted
    /\ workers[w].kind = "crew" /\ workers[w].pc = "reading"
    /\ Advance(w, CrewFailed(workers[w], w))

\* run_agent_inline(): iter_lines() yields the next line
CrewLine(w, line, flushNow) ==
    LET rec == workers[w]
        st == ReadLine(rec, w, line, flushNow, FALSE)
        closed == IF st.rec.pc = "flush"
                  THEN [st.rec EXCEPT !.inflight = CloseRequest(@, rec.i),
                                      !.stopObs = IF @ = 0 THEN rec.i ELSE @]
                  ELSE st.rec
    IN  /\ ~aborted
        /\ rec.kind = "crew" /\ rec.pc = "reading"
        /\ (line.kind = "content" /\ rec.running) => rec.chunk_count < limits.lines
        /\ Advance(w, IF Undecodable(rec, line)
                      THEN CrewFailed(rec, w)
                      ELSE [st EXCEPT !.rec = closed])

\* CrewStepDone with previous left as it was
CrewStepDoneStale(rec, w) ==
    LET stripped == Strip(rec.response)
        out == IF stripped = <<>> THEN NoResponse ELSE stripped
    IN  Step([rec EXCEPT !.pc = "loop",
                         !.raw = Append(@, rec.response),
                         !.output = @ \o ReportEntry(rec.crew_config[rec.i].role, out),
                         !.i = NextStep(@)],
             IF rec.buffer # <<>> THEN <<Event(w, "token", rec.buffer, 0)>> ELSE <<>>)

\* run_agent_inline() after the try, then run() up to the end of the loop body
CrewStepDone(rec, w) ==
    LET stripped == Strip(rec.response)
        out == IF stripped = <<>> THEN NoResponse ELSE stripped
    IN  Step([rec EXCEPT !.pc = "loop",
                         !.raw = Append(@, rec.response),
                         !.output = @ \o ReportEntry(rec.crew_config[rec.i].role, out),
                         !.previous = out,
                         !.i = NextStep(@)],
             IF rec.buffer # <<>> THEN <<Event(w, "token", rec.buffer, 0)>> ELSE <<>>)

CrewStepEnd(w) ==
    /\ ~aborted
    /\ workers[w].kind = "crew" /\ workers[w].pc = "flush"
    /\ Advance(w, CrewStepDone(workers[w], w))

CrewStep(w) ==
    \/ CrewLoop(w)
    \/ \E line \in Lines, flushNow \in BOOLEAN : CrewLine(w, line, flushNow)
    \/ CrewEnd(w)
    \/ CrewFail(w)
    \/ CrewStepEnd(w)

\* ------------------------------------------------ OllamaManager operations
\* Threads of the manager: Ui is the thread of the window; a background
\* thread is named by its kind and number.
Ui == [kind |-> "ui", n |-> 0]
ServeThread(t) == [kind |-> "serve", n |-> t]
PullThread(t) == [kind |-> "pull", n |-> t]
IsUi(th) == th = Ui

\* a widget method called by thread th: recorded when th is not the UI thread
Touch(m, th, widgets) ==
    IF IsUi(th) THEN m ELSE [m EXCEPT !.direct = @ \cup widgets]

\* the slot connected to a signal of the manager
Slot(m, sig) ==
    CASE sig.name = "progress" -> [m EXCEPT !.progress.value = sig.value]
      [] sig.name = "visible" -> [m EXCEPT !.progress.visible = (sig.value = 1)]
      [] OTHER -> m

\* signal.emit(...) by thread th: the slot runs at once in the UI thread, and
\* is queued to the UI thread when emitted from another thread.  The slot of
\* log_signal appends to the log area, which is not part of the state, so a
\* log signal is not kept in the queue.
Signal(m, th, name, value) ==
    LET sig == [name |-> name, value |-> value]
    IN  IF IsUi(th) \/ name = "log" THEN Slot(m, sig)
        ELSE [m EXCEPT !.mq = Append(@, sig)]

HasUsername(name) == name = "u/m"

\* update_push_button()
UpdatePushButton(m, th) ==
    [Touch(m, th, {"push_btn"}) EXCEPT
        !.push_btn = HasUsername(m.current_selected_model) /\ m.is_signed_in]

\* load_models(): up is what is_server_running() returns, ok whether the
\* request for the tags succeeds
LoadModels(m, th, up, ok) ==
    IF ~up THEN Signal(m, th, "log", 0)
    ELSE Signal([Touch(m, th, {"model_list"}) EXCEPT
                    !.model_list = IF ok THEN "loaded" ELSE "empty"],
                th, "log", 0)

\* check_server_status(): up, up2 are what the two calls of is_server_running()
\* return.  The single-shot timer it sets is delivered only when it was set in
\* the UI thread: a thread without an event loop delivers no timer.
CheckServerStatus(m, th, up, up2, ok) ==
    LET widgets == {"status_label", "serve_btn", "refresh_btn", "model_list"}
        m1 == IF up
              THEN LoadModels([Touch(m, th, widgets) EXCEPT
                                  !.server_ready = TRUE, !.status_label = "Running",
                                  !.serve_btn = "Stop", !.refresh_btn = TRUE],
                              th, up2, ok)
              ELSE [Touch(m, th, widgets) EXCEPT
                       !.server_ready = FALSE, !.status_label = "Stopped",
                       !.serve_btn = "Start", !.refresh_btn = FALSE,
                       !.model_list = "empty"]
        m2 == UpdatePushButton(m1, th)
    IN  IF IsUi(th) THEN [m2 EXCEPT !.pending = @ \cup {"auth"}] ELSE m2

\* check_initial_auth_status(): signed is whether `ollama signin` reports a user
CheckInitialAuthStatus(m, signed) ==
    UpdatePushButton(
        IF signed
        THEN [m EXCEPT !.signin_btn = FALSE, !.signout_btn = TRUE, !.is_signed_in = TRUE]
        ELSE [m EXCEPT !.is_signed_in = FALSE],
        Ui)

\* a manager step: only the manager's state changes
MgrStep(m) ==
    /\ mgr' = m
    /\ UNCHANGED << guiVars, dbVars, workers, queue, timers, persisted, aborted,
                    nsend, limits, retriever, attached_image_base64, crewVars, rag >>

\* a single-shot timer of the manager fires in the UI thread
MgrTimer(name, up, up2, ok, signed) ==
    /\ name \in mgr.pending
    /\ LET m == [mgr EXCEPT !.pending = @ \ {name}]
       IN  MgrStep(IF name = "status"
                   THEN CheckServerStatus(m, Ui, up, up2, ok)
                   ELSE CheckInitialAuthStatus(m, signed))

\* a serve thread that has not returned
NotEnded == [log |-> "none", server_ready |-> FALSE, status_label |-> "none"]

\* toggle_serve(): the Start / Stop button
ToggleServe(up, up2, ok) ==
    IF mgr.server_ready
    THEN LET stopped == IF mgr.process # 0
                        THEN [mgr EXCEPT !.alive = @ \ {mgr.process}, !.process = 0]
                        ELSE mgr
         IN  MgrStep(CheckServerStatus(stopped, Ui, up, up2, ok))
    ELSE /\ Len(mgr.serve) < limits.starts
         /\ MgrStep([mgr EXCEPT !.serve = Append(@, [pc |-> "start", polls |-> 0,
                                                      end |-> NotEnded])])

\* run_serve_background(): the subprocess is started
ServeStart(t) ==
    /\ t \in 1..Len(mgr.serve) /\ mgr.serve[t].pc = "start"
    /\ LET m == Signal(mgr, ServeThread(t), "log", 0)
       IN  MgrStep([m EXCEPT !.spawned = @ + 1, !.process = m.spawned + 1,
                             !.alive = @ \cup {m.spawned + 1},
                             !.serve[t].pc = "poll"])

\* run_serve_background() returns: what it logged last and how the window
\* marks the server at that moment
Ended(m, t, log) ==
    [m EXCEPT !.serve[t].pc = "done",
              !.serve[t].end = [log |-> log, server_ready |-> m.server_ready,
                                status_label |-> m.status_label]]

\* run_serve_background(): one turn of for _ in range(30), and what follows
\* the loop when that was the last turn.  up is what the loop's call of
\* is_server_running() returns, again what the call inside
\* check_server_status() returns, up2 the one inside load_models().
ServePolled(m, t, up, again, up2, ok) ==
    LET polled == [m EXCEPT !.serve[t].polls = @ + 1]
    IN  IF up
        THEN Ended(Signal(CheckServerStatus(polled, ServeThread(t), again, up2, ok),
                          ServeThread(t), "log", 0),
                   t, "ready")
        ELSE IF polled.serve[t].polls < PollCap
        THEN polled
        ELSE Ended(Signal(polled, ServeThread(t), "log", 0), t, "not responding")

ServePoll(t, up, again, up2, ok) ==
    /\ t \in 1..Len(mgr.serve) /\ mgr.serve[t].pc = "poll"
    /\ MgrStep(ServePolled(mgr, t, up, again, up2, ok))

\* signin(): result is what `ollama signin` prints: "signed" (already signed
\* in), "url" (a sign-in address) or "other"
Signin(result) ==
    /\ mgr.signin_btn
    /\ MgrStep(CASE result = "signed" ->
                        UpdatePushButton([mgr EXCEPT !.signin_btn = FALSE,
                                                     !.signout_btn = TRUE,
                                                     !.is_signed_in = TRUE], Ui)
                 [] result = "url" ->
                        [mgr EXCEPT !.signin_btn = FALSE, !.signout_btn = TRUE,
                                    !.is_signed_in = FALSE,
                                    !.auth_poll = TRUE, !.auth_auto = 0]
                 [] OTHER -> mgr)

\* check_auth_status(), the slot of auth_poll_timer (every 3000 ms): auth_auto
\* counts the status checks the timer has issued since signin()
CheckAuthStatus(signed) ==
    /\ mgr.auth_poll
    /\ mgr.auth_auto < MaxAuthPolls
    /\ LET m == [mgr EXCEPT !.auth_auto = @ + 1]
       IN  MgrStep(IF signed
                   THEN [UpdatePushButton([m EXCEPT !.is_signed_in = TRUE], Ui)
                            EXCEPT !.auth_poll = FALSE]
                   ELSE m)

\* signout(), confirmed: ok is whether `ollama signout` succeeds
Signout(ok) ==
    /\ mgr.signout_btn
    /\ MgrStep(IF ok
               THEN [UpdatePushButton([mgr EXCEPT !.signin_btn = TRUE,
                                                  !.signout_btn = FALSE,
                                                  !.is_signed_in = FALSE], Ui)
                        EXCEPT !.auth_poll = FALSE]
               ELSE mgr)

\* pull_model() with a model name typed
PullModel ==
    /\ Len(mgr.pulls) < limits.pulls
    /\ IF ~mgr.server_ready
       THEN MgrStep(mgr)
       ELSE MgrStep([Signal(Signal(Signal(mgr, Ui, "visible", 1), Ui, "progress", 0),
                            Ui, "log", 0)
                        EXCEPT !.pulls = Append(@, [pc |-> "reading", lines |-> 0])])

\* pull(): a line of the subprocess's output with a percentage
PullLine(t, pct) ==
    /\ t \in 1..Len(mgr.pulls) /\ mgr.pulls[t].pc = "reading"
    /\ mgr.pulls[t].lines < MaxPullLines
    /\ MgrStep([Signal(Signal(mgr, PullThread(t), "log", 0), PullThread(t), "progress", pct)
                    EXCEPT !.pulls[t].lines = @ + 1])

\* pull(): the subprocess ends, rc0 is whether its return code is 0
PullEnd(t, rc0, up, ok) ==
    /\ t \in 1..Len(mgr.pulls) /\ mgr.pulls[t].pc = "reading"
    /\ LET th == PullThread(t)
           m1 == IF rc0 THEN LoadModels(Signal(mgr, th, "log", 0), th, up, ok)
                 ELSE Signal(mgr, th, "log", 0)
       IN  MgrStep([Signal(m1, th, "visible", 0) EXCEPT !.pulls[t].pc = "done"])

\* on_model_select(item): an item of the loaded list is clicked
OnModelSelect(name) ==
    /\ mgr.model_list = "loaded"
    /\ MgrStep(UpdatePushButton([mgr EXCEPT !.current_selected_model = name,
                                            !.rm_btn = TRUE, !.removed = FALSE], Ui))

\* remove_model(), confirmed: rm is whether `ollama rm` succeeds; removed
\* remembers that the model current_selected_model names was removed
RemoveModel(rm, up, ok) ==
    /\ mgr.rm_btn
    /\ MgrStep(IF rm
               THEN [LoadModels(Signal(mgr, Ui, "log", 0), Ui, up, ok) EXCEPT
                        !.rm_btn = FALSE, !.push_btn = FALSE, !.removed = TRUE]
               ELSE Signal(mgr, Ui, "log", 0))

\* the UI thread delivers the oldest queued signal to its slot
MgrDeliver ==
    /\ mgr.mq # <<>>
    /\ MgrStep(Slot([mgr EXCEPT !.mq = Tail(@)], Head(mgr.mq)))

\* ----------------------------------------------------------- specifications
\* The window in single-model mode, several prompts.
Next ==
    \/ \E typed \in Inputs : Send(typed)
    \/ StopOrReload
    \/ \E w \in Workers : WatchdogFire(w)
    \/ HandleEvent
    \/ \E w \in Workers : DirectStep(w)

Spec == Init /\ [][Next]_vars

\* The window in single-model mode, one prompt, with the conversation list.
NextDirect ==
    \/ \E typed \in Inputs : Send(typed)
    \/ StopOrReload
    \/ NewChat
    \/ \E c \in conversations : LoadConversation(c)
    \/ \E c \in conversations : DeleteConversation(c)
    \/ \E w \in Workers : WatchdogFire(w)
    \/ HandleEvent
    \/ \E w \in Workers : DirectStep(w)

SpecDirect == InitDirect /\ [][NextDirect]_vars

\* The window after toggle_advanced_mode() and select_crew_from_list(), one
\* prompt.
InitCrew ==
    /\ thread = 0
    /\ current_conversation_id = 0
    /\ last_user_prompt = <<>>
    /\ advanced_mode = TRUE
    /\ current_crew_config \in CrewConfigs
    /\ stop_reload_btn = [text |-> "Stop", enabled |-> FALSE]
    /\ conversations = {1} /\ next_cid = 2 /\ messages = StoredRows
    /\ added = StoredRows
    /\ db_calls = InitCalls \cup SelectCalls
    /\ workers = [w \in Workers |-> NoWorker]
    /\ queue = <<>>
    /\ timers = {}
    /\ persisted = [w \in Workers |-> <<>>]
    /\ aborted = FALSE
    /\ nsend = 0
    /\ limits = OnePrompt
    /\ retriever = [set |-> FALSE, docs |-> <<>>]
    /\ attached_image_base64 = FALSE
    /\ mgr = MgrInit
    /\ crews = [rows |-> {[id |-> 1, name |-> "A", config |-> current_crew_config,
                            is_default |-> TRUE]},
                next_id |-> 2, rejected |-> ""]
    /\ current_crew_id = 1
    /\ current_crew_name = "A"
    /\ rag = RagInit

NextCrew ==
    \/ \E typed \in Inputs : Send(typed)
    \/ StopOrReload
    \/ \E w \in Workers : WatchdogFire(w)
    \/ HandleEvent
    \/ \E w \in Workers : CrewStep(w)

SpecCrew == InitCrew /\ [][NextCrew]_vars

\* The window in single-model mode, one prompt, with a knowledge base and
\* image attachments.
NextRag ==
    \/ \E typed \in Inputs : Send(typed)
    \/ AttachImage
    \/ \E docs \in Retrievers : OnRagFinished(docs)
    \/ \E c \in conversations : LoadConversation(c)
    \/ HandleEvent
    \/ \E w \in Workers : DirectStep(w)

SpecRag == InitDirect /\ [][NextRag]_vars

\* The window in single-model mode, two prompts, the user waiting for the
\* reply to the first before sending the second.
SendNext(typed) == thread = 0 /\ queue = <<>> /\ Send(typed)

NextTwice ==
    \/ \E typed \in Inputs : SendNext(typed)
    \/ NewChat
    \/ HandleEvent
    \/ \E w \in Workers : DirectStep(w)

SpecTwice == InitTwice /\ [][NextTwice]_vars

\* The window in either mode, one prompt: as constructed, or after
\* toggle_advanced_mode() and select_crew_from_list().
InitBoth == InitDirect \/ InitCrew

NextBoth ==
    \/ \E typed \in Inputs : Send(typed)
    \/ StopOrReload
    \/ \E w \in Workers : WatchdogFire(w)
    \/ HandleEvent
    \/ \E w \in Workers : DirectStep(w)
    \/ \E w \in Workers : CrewStep(w)

SpecBoth == InitBoth /\ [][NextBoth]_vars

\* One prompt sent in either mode, with the mode button and the retriever.
NextSend ==
    \/ \E typed \in Inputs : Send(typed)
    \/ ToggleAdvancedMode
    \/ \E docs \in Retrievers : OnRagFinished(docs)
    \/ HandleEvent
    \/ \E w \in Workers : DirectStep(w)
    \/ \E w \in Workers : CrewStep(w)

SpecSend == InitBoth /\ [][NextSend]_vars

\* One indexing run of the knowledge base.
NextIndex ==
    \/ \E n \in 1..MaxPaths : AddRagKnowledge(n)
    \/ CancelRag
    \/ RagLoadFile
    \/ \E total \in Totals : RagLoaded(total)
    \/ RagBatch
    \/ RagFail
    \/ RagDeliver

SpecIndex == InitDirect /\ [][NextIndex]_vars

\* The crew list of the window.
NextCrews ==
    \/ \E name \in CrewNames, config \in CrewConfigs : CreateNewCrew(name, config)
    \/ \E id \in 1..MaxCrews : SelectCrew(id)
    \/ \E id \in 1..MaxCrews : SetDefaultCrew(id)
    \/ \E id \in 1..MaxCrews, name \in CrewNames : RenameCrew(id, name)
    \/ \E id \in 1..MaxCrews, name \in CrewNames, config \in CrewConfigs :
            EditCrew(id, name, config)
    \/ \E id \in 1..MaxCrews : DeleteCrew(id)

SpecCrews == InitDirect /\ [][NextCrews]_vars

\* The manager window.
NextManager ==
    \/ \E name \in {"status", "auth"}, up, up2, ok, signed \in BOOLEAN :
            MgrTimer(name, up, up2, ok, signed)
    \/ \E up, up2, ok \in BOOLEAN : ToggleServe(up, up2, ok)
    \/ \E t \in 1..MaxStarts : ServeStart(t)
    \/ \E t \in 1..MaxStarts, up, again, up2, ok \in BOOLEAN :
            ServePoll(t, up, again, up2, ok)
    \/ \E result \in {"signed", "url", "other"} : Signin(result)
    \/ \E signed \in BOOLEAN : CheckAuthStatus(signed)
    \/ \E ok \in BOOLEAN : Signout(ok)
    \/ PullModel
    \/ \E t \in 1..MaxPulls, pct \in {50} : PullLine(t, pct)
    \/ \E t \in 1..MaxPulls, rc0, up, ok \in BOOLEAN : PullEnd(t, rc0, up, ok)
    \/ MgrDeliver

SpecManager == InitDirect /\ [][NextManager]_vars

\* The Start / Stop button of the manager, pressed once more than MaxStarts.
StartAgain == [sends |-> 1, lines |-> MaxLines, starts |-> MaxStarts + 1, pulls |-> MaxPulls]
InitServe == Constructed(StartAgain)

NextServe ==
    \/ \E up, up2, ok \in BOOLEAN : ToggleServe(up, up2, ok)
    \/ \E t \in 1..(MaxStarts + 1) : ServeStart(t)
    \/ \E t \in 1..(MaxStarts + 1), up, again, up2, ok \in BOOLEAN :
            ServePoll(t, up, again, up2, ok)

SpecServe == InitServe /\ [][NextServe]_vars

\* The model list, the account and the push button of the manager.
ModelNames == {"m", "u/m"}

NextPush ==
    \/ \E name \in {"status", "auth"}, up, up2, ok, signed \in BOOLEAN :
            MgrTimer(name, up, up2, ok, signed)
    \/ \E name \in ModelNames : OnModelSelect(name)
    \/ \E rm, up, ok \in BOOLEAN : RemoveModel(rm, up, ok)
    \/ \E result \in {"signed", "url", "other"} : Signin(result)
    \/ \E signed \in BOOLEAN : CheckAuthStatus(signed)
    \/ \E ok \in BOOLEAN : Signout(ok)

SpecPush == InitDirect /\ [][NextPush]_vars

\* Pull operations of the manager, started once more than MaxPulls.
PullAgain == [sends |-> 1, lines |-> MaxLines, starts |-> MaxStarts, pulls |-> MaxPulls + 1]
InitPulls == Constructed(PullAgain)

NextPulls ==
    \/ \E name \in {"status", "auth"}, up, up2, ok, signed \in BOOLEAN :
            MgrTimer(name, up, up2, ok, signed)
    \/ PullModel
    \/ \E t \in 1..(MaxPulls + 1), pct \in {50} : PullLine(t, pct)
    \/ \E t \in 1..(MaxPulls + 1), rc0, up, ok \in BOOLEAN : PullEnd(t, rc0, up, ok)
    \/ MgrDeliver

SpecPulls == InitPulls /\ [][NextPulls]_vars

\* ------------------------------------------------------------------ claims
Direct == {w \in Workers : workers[w].kind = "direct"}
Crew == {w \in Workers : workers[w].kind = "crew"}

\* the worker's finished signal, when it has emitted exactly that
FinishedOf(w) == workers[w].terminal[1]
HasFinished(w) == workers[w].terminal # <<>> /\ workers[w].terminal[1].type = "finished"

\* every signal of worker w has been delivered to its slot
Handled(w) == workers[w].terminal # <<>> /\ \A k \in 1..Len(queue) : queue[k].w # w

\* C1: at most one generation worker (DirectOllamaThread or CustomCrewThread)
\* is running at any time: while a worker started by send() has not reached a
\* terminal state, a further send() starts no second worker.
C1_AtMostOneWorkerRunning ==
    Cardinality({w \in Workers : IsRunningThread(w)}) <= 1

\* a single-model run that completed normally: finished, and stop() not called
\* before that
CompletedNormally(w) ==
    /\ w \in Direct
    /\ HasFinished(w)
    /\ workers[w].stopAt = -1

\* C2 (as stated): the final text emitted with the finished event of a normally
\* completed single-model run equals F1+F2+...+Fn, however the fragments were
\* coalesced into token events.
C2_FinalTextIsConcatenation ==
    \A w \in Workers :
        CompletedNormally(w) => FinishedOf(w).text = Concat(workers[w].recv)

\* C2 (amended): the final text emitted with the finished event of a normally
\* completed single-model run equals F1+F2+...+Fn with its leading and
\* trailing whitespace removed, however the fragments were coalesced.
C2_FinalTextIsStrippedConcatenation ==
    \A w \in Workers :
        CompletedNormally(w) => FinishedOf(w).text = Strip(Concat(workers[w].recv))

\* a run of two fragments, the second coalesced into the last flush, whose
\* concatenation ends in whitespace
C2_Witness ==
    \E w \in Workers :
        /\ CompletedNormally(w)
        /\ workers[w].recv = << <<"a">>, <<" ">> >>
        /\ workers[w].buffer = <<" ">>
        /\ FinishedOf(w).text = <<"a">>

\* a single-model run on which stop() was called in the middle of the stream,
\* after fragment k >= 1, with a later fragment of the server left unread
StoppedMidStream(w) ==
    /\ w \in Direct
    /\ workers[w].stopPc = "reading"
    /\ workers[w].stopAt >= 1
    /\ workers[w].dropped

\* C3: if stop() is called on a single-model worker after fragment k of n
\* (k < n), no fragment after k is added to the accumulated text or emitted as
\* a token, and the final text persisted for that generation is F1..Fk
\* followed by the stopped-by-user marker.  (Stated for runs that end with the
\* finished signal and whose F1..Fk has no whitespace at either end.)
C3_StoppedRunPersistsPrefixWithMarker ==
    \A w \in Workers :
        (StoppedMidStream(w) /\ Strip(Concat(workers[w].recv)) = Concat(workers[w].recv))
            => /\ Len(workers[w].recv) = workers[w].stopAt
               /\ workers[w].tokens = Concat(workers[w].recv)
                    \/ (workers[w].pc # "done"
                            /\ workers[w].tokens \o workers[w].buffer = Concat(workers[w].recv))
               /\ (HasFinished(w) /\ Handled(w))
                    => /\ Len(persisted[w]) = 1
                       /\ persisted[w][1].content = Concat(workers[w].recv) \o StopMarker

\* C4: each started worker run emits at most one terminal event: finished and
\* error are mutually exclusive, each is emitted at most once, and after a
\* terminal event the run emits no further token, finished or error event.
C4_AtMostOneTerminalEvent ==
    \A w \in Workers : Len(workers[w].terminal) <= 1 /\ ~workers[w].late

\* C5: every started worker run emits a terminal event: a run whose thread has
\* ended has emitted finished or error, any failure inside the run having been
\* converted to an error event.
C5_EndedRunHasTerminalEvent ==
    \A w \in Workers :
        workers[w].pc \in {"done", "crashed"} => workers[w].terminal # <<>>

\* the output string produced by the step before request k of worker w
RawBefore(w, k) == workers[w].raw[workers[w].requests[k].step - 1]

\* the template of the step of request k
TemplateOf(w, k) == workers[w].crew_config[workers[w].requests[k].step].input_prompt

RequestIsTail(w, n) ==
    LET all == workers[w].sent[1].stored \o <<Msg("user", workers[w].sent[1].prompt)>>
        msgs == workers[w].messages
    IN  /\ Len(msgs) = (IF Len(all) <= n THEN Len(all) ELSE n)
        /\ \A k \in 1..Len(msgs) : msgs[k] = all[Len(all) - Len(msgs) + k]

\* C7 (as stated): in single-model mode, sending p in a conversation whose
\* stored messages are M produces the request M followed by {user, p}, nothing
\* dropped, and when the stream completes with F1..Fn the assistant message
\* persisted is exactly F1+...+Fn.
C7_RequestIsWholeHistory ==
    \A w \in Direct :
        /\ workers[w].messages =
                workers[w].sent[1].stored \o <<Msg("user", workers[w].sent[1].prompt)>>
        /\ (CompletedNormally(w) /\ Handled(w))
                => /\ Len(persisted[w]) = 1
                   /\ persisted[w][1].content = Concat(workers[w].recv)

\* C7 (amended): the request is the last 10 messages of M followed by
\* {user, p} (M whole only when it has at most 9 messages), and when the
\* stream completes with F1..Fn the assistant message persisted is F1+...+Fn
\* with leading and trailing whitespace removed, none when that is empty; the
\* stop marker is appended to it only when the window's current worker has
\* been stopped by then.
C7_RequestIsLastTen ==
    \A w \in Direct :
        /\ RequestIsTail(w, 10)
        /\ (HasFinished(w) /\ Handled(w))
                => LET text == Strip(Concat(workers[w].recv))
                   IN  IF text = <<>>
                       THEN persisted[w] = <<>>
                       ELSE /\ Len(persisted[w]) = 1
                            /\ persisted[w][1].content =
                                    text \o (IF persisted[w][1].stopped THEN StopMarker ELSE <<>>)
                            /\ (CompletedNormally(w) /\ persisted[w][1].holder = w)
                                    => ~persisted[w][1].stopped

\* a prompt sent in the stored conversation, whose oldest message is left out
\* of the request, and the reply "a" persisted
C7_Witness ==
    \E w \in Direct :
        /\ Len(workers[w].sent[1].stored) >= 10
        /\ workers[w].messages[1] # workers[w].sent[1].stored[1]
        /\ CompletedNormally(w) /\ Handled(w)
        /\ Len(persisted[w]) = 1 /\ persisted[w][1].content = <<"a">>

\* the watchdog of worker w has fired
WatchdogFired(w) == workers[w].pc # "new" /\ w \notin timers

\* C8: when the watchdog has called stop() on a generation's worker, the worker
\* reaches a terminal state (Cancelled or Failed): once its thread has ended,
\* it has emitted finished or error.
C8_WatchdogStopEndsInTerminalState ==
    \A w \in Workers :
        (WatchdogFired(w) /\ ~IsRunningThread(w)) => workers[w].terminal # <<>>

\* the output a step contributes to the report
OutOf(raw) == IF Strip(raw) = <<>> THEN NoResponse ELSE Strip(raw)

RECURSIVE ReportOf(_, _)
ReportOf(w, n) ==
    IF n = 0 THEN ReportHead(workers[w].user_prompt)
    ELSE ReportOf(w, n - 1)
            \o ReportEntry(workers[w].crew_config[n].role, OutOf(workers[w].raw[n]))

\* C9: the pipeline runner executes the crew's steps strictly in configuration
\* order, one at a time: the request of step i+1 is issued only after step i's
\* transport call has returned, no two steps are in flight together, and the
\* transcript lists the executed steps' role headers and outputs in that order.
C9_StepsInOrderOneAtATime ==
    \A w \in Crew :
        LET rec == workers[w]
        IN  /\ \A k \in 1..Len(rec.requests) : rec.requests[k].step = k
            /\ Len(rec.requests) <= Len(rec.raw) + 1
            /\ rec.inflight \subseteq {Len(rec.requests)} \ {Len(rec.raw)}
            /\ rec.output = ReportOf(w, Len(rec.raw))
            /\ (HasFinished(w) /\ rec.running) => Len(rec.raw) = Len(rec.crew_config)
            /\ HasFinished(w) =>
                    \/ FinishedOf(w).text = rec.output
                    \/ FinishedOf(w).text = rec.output \o StopMarker

\* a two-step crew ran both steps and emitted the report of both
C9_Witness ==
    \E w \in Crew :
        /\ HasFinished(w)
        /\ Len(workers[w].raw) = 2
        /\ workers[w].raw[1] # <<>> /\ workers[w].raw[2] # <<>>
        /\ FinishedOf(w).text = ReportOf(w, 2)

EndsWith(t, suffix) ==
    /\ Len(t) >= Len(suffix)
    /\ SubSeq(t, Len(t) - Len(suffix) + 1, Len(t)) = suffix

\* C10: if stop() is observed before or during pipeline step i, no request is
\* issued for any step after i, and the transcript emitted with the finished
\* event is marked as stopped.
C10_StopAbortsRemainingSteps ==
    \A w \in Crew :
        workers[w].stopObs > 0 =>
            /\ \A k \in 1..Len(workers[w].requests) :
                    workers[w].requests[k].step <= workers[w].stopObs
            /\ HasFinished(w) => EndsWith(FinishedOf(w).text, StopMarker)

\* stop() was observed during step 1 of a two-step crew: step 2 was never
\* requested and the report carries the marker
C10_Witness ==
    \E w \in Crew :
        /\ workers[w].stopObs = 1
        /\ Len(workers[w].crew_config) = 2
        /\ Len(workers[w].requests) = 1
        /\ HasFinished(w)
        /\ FinishedOf(w).text = ReportOf(w, 1) \o StopMarker

\* a pipeline run one of whose steps yielded no text
EmptyStep(w) == \E k \in 1..Len(workers[w].raw) : Strip(workers[w].raw[k]) = <<>>

\* the last finished or error signal the worker emitted
LastTerminal(w) == workers[w].terminal[Len(workers[w].terminal)]
EndedFinished(w) == workers[w].terminal # <<>> /\ LastTerminal(w).type = "finished"

\* every template of the crew renders
Renders(cfg) == \A i \in 1..Len(cfg) : Format(cfg[i].input_prompt, <<>>).ok

\* C11: a pipeline step that yields no text, a failed transport call included,
\* does not abort the pipeline: unless stop() was requested, the run goes on to
\* execute every later step in order and to emit finished with the full
\* transcript, which is then persisted.  (Stated for crews whose templates all
\* render: once such a run, never stopped, is over, it has requested every
\* step and emitted the whole report, and the handled report is stored.)
C11_EmptyStepDoesNotAbortPipeline ==
    \A w \in Crew :
        LET rec == workers[w]
        IN  (EmptyStep(w) /\ Renders(rec.crew_config) /\ rec.stopAt = -1)
                => /\ (aborted \/ ~IsRunningThread(w))
                        => /\ EndedFinished(w)
                           /\ Len(rec.requests) = Len(rec.crew_config)
                           /\ LastTerminal(w).text = ReportOf(w, Len(rec.crew_config))
                   /\ (EndedFinished(w) /\ Handled(w))
                        => /\ Len(persisted[w]) = 1
                           /\ persisted[w][1].content = ReportOf(w, Len(rec.crew_config))

\* a single-model run that failed: it emitted the error signal
Failed(w) == w \in Direct /\ workers[w].terminal # <<>> /\ workers[w].terminal[1].type = "error"

\* the slot of an error signal runs in this step
ErrorSlotRuns == queue # <<>> /\ Head(queue).type = "error" /\ queue' = Tail(queue)

\* C12: in single-model mode a transport failure marks the generation Failed:
\* exactly one error event and no finished event are emitted, the request is
\* not issued again, no assistant message is persisted for that send, and the
\* error's slot leaves the window idle (no current worker, button "Reload").
C12_TransportFailureMarksFailed ==
    /\ [](\A w \in Workers :
            Failed(w) => /\ Len(workers[w].terminal) = 1
                         /\ ~workers[w].late
                         /\ workers[w].pc = "done"
                         /\ Len(workers[w].requests) = 1
                         /\ persisted[w] = <<>>)
    /\ [][ErrorSlotRuns => (thread' = 0 /\ stop_reload_btn'.text = "Reload")]_vars

\* the request of a prompt failed, its error was shown, and the window is idle
\* with nothing stored after the prompt
C12_Witness ==
    \E w \in Workers :
        /\ Failed(w) /\ Handled(w)
        /\ thread = 0 /\ stop_reload_btn = [text |-> "Reload", enabled |-> TRUE]
        /\ current_conversation_id # 0
        /\ LET msgs == GetMessages(messages, current_conversation_id)
           IN  msgs[Len(msgs)] = Msg("user", workers[w].sent[1].prompt)

\* C13: the transport call stops at the server's completion signal: once a
\* line with done=true has been read, no later line's content is added to the
\* accumulated text or to the fragment count, in the single-model worker and
\* in each pipeline step's transport call.
C13_NothingReadAfterDone ==
    \A w \in Workers : ~workers[w].afterDone

\* the atoms of t that come from the model (fragments), not from the worker's
\* own "Working..." lines
ModelText(t) == SelectSeq(t, LAMBDA a : \E f \in Frags : \E k \in 1..Len(f) : f[k] = a)

\* C14: model text reaches the UI in the order the transport produced it,
\* nothing lost or duplicated by coalescing: for a run that ended by
\* completion or by cancellation (it emitted finished last), the concatenated
\* payloads of its token events that carry model text equal the concatenation
\* of the fragments the worker accumulated.
C14_TokensAreTheFragments ==
    \A w \in Workers :
        (workers[w].pc = "done" /\ EndedFinished(w))
            => ModelText(workers[w].tokens) = Concat(workers[w].recv)

\* send() found snippets for the request of worker w
Retrieved(w) ==
    /\ w \in Direct
    /\ workers[w].sent[1].retriever.set
    /\ workers[w].sent[1].retriever.docs # <<>>

\* the positions of the request's messages that carry retrieved context
RagAt(msgs) == {k \in 1..Len(msgs) : msgs[k].role = "system" /\ "context" \in DOMAIN msgs[k]}

\* msgs without its element k
Without(msgs, k) == SubSeq(msgs, 1, k - 1) \o SubSeq(msgs, k + 1, Len(msgs))

\* the request send() builds when there is no retriever
PlainRequest(w) ==
    LET sent == workers[w].sent[1]
        tail == LastN(sent.stored \o <<Msg("user", sent.prompt)>>, 10)
    IN  IF sent.image THEN Append(tail, ImageMessage(sent.prompt)) ELSE tail

Min(a, b) == IF a <= b THEN a ELSE b

C16_MessagesBelongToConversations ==
    \A k \in 1..Len(messages) : messages[k].cid \in conversations

\* the messages added to conversation c by add_message, as they were added
RECURSIVE AddedTo(_, _)
AddedTo(log, c) ==
    IF log = <<>> THEN <<>>
    ELSE (IF Head(log).cid = c THEN <<Msg(Head(log).role, Head(log).content)>> ELSE <<>>)
            \o AddedTo(Tail(log), c)

\* C17: get_messages(cid) returns exactly the messages added to conversation
\* cid by add_message, in the order they were added, each with the role and
\* content it was added with, and never a message of another conversation.
C17_GetMessagesReturnsWhatWasAdded ==
    \A c \in conversations : GetMessages(messages, c) = AddedTo(added, c)

\* the prompt and the reply of a new conversation are returned for it, in that
\* order, while the store holds another conversation's messages as well
C17_Witness ==
    \E c \in conversations :
        /\ GetMessages(messages, c) = <<Msg("user", <<"p">>), Msg("assistant", <<"a">>)>>
        /\ \E k \in 1..Len(messages) : messages[k].cid # c

\* C19: running the transport call twice with identical inputs against a
\* server that returns the same lines yields identical accumulated text and
\* identical fragment count: two single-model runs that completed normally on
\* the same request and the same content lines emitted the same final text and
\* the same count.
C19_SameInputsSameResult ==
    \A v, w \in Direct :
        (/\ CompletedNormally(v) /\ CompletedNormally(w)
         /\ workers[v].messages = workers[w].messages
         /\ workers[v].recv = workers[w].recv)
            => /\ FinishedOf(v).text = FinishedOf(w).text
               /\ FinishedOf(v).chunks = FinishedOf(w).chunks

\* the same prompt was sent twice, each time in a new chat, and both streams
\* returned the one fragment "a"
C19_Witness ==
    \E v, w \in Direct :
        /\ v # w
        /\ CompletedNormally(v) /\ CompletedNormally(w)
        /\ workers[v].messages = workers[w].messages
        /\ workers[v].recv = << <<"a">> >> /\ workers[w].recv = << <<"a">> >>
        /\ FinishedOf(w).text = <<"a">> /\ FinishedOf(w).chunks = 1

\* C18: no background thread of the manager uses a widget itself; whatever a
\* background thread shows reaches the window through a signal delivered in
\* the UI thread.
C18_BackgroundThreadsUseSignalsOnly == mgr.direct = {}

\* C20: nothing is issued again without the user asking: between two actions
\* of the user the only repeated request is the serve thread's poll of the
\* server, at most PollCap times; the sign-in status is never checked by a
\* timer.
C20_NothingRetriedButBoundedServerPoll ==
    /\ \A t \in 1..Len(mgr.serve) : mgr.serve[t].polls <= PollCap
    /\ mgr.auth_auto = 0

\* C21: a response line that is not valid JSON is skipped without being
\* fatal: the step in which a running worker reads such a line leaves the
\* accumulated text and the fragment count unchanged, emits no token and no
\* error signal, and leaves the worker in its read loop.
C21_BadLineIsSkipped ==
    [][\A w \in Workers, line \in NotJson, flushNow \in BOOLEAN :
            (workers[w].running
                /\ (DirectLine(w, line, flushNow) \/ CrewLine(w, line, flushNow)))
            => /\ workers'[w].response = workers[w].response
               /\ workers'[w].chunk_count = workers[w].chunk_count
               /\ queue' = queue
               /\ workers'[w].pc = "reading"]_vars

\* the user messages that the conversation held before the prompt of worker w
\* was sent, the last 6 of them
PriorUserTurns(w) == UserHistory(workers[w].sent[1].stored)

\* C22: the window of prior user turns is added to the pipeline request at
\* step 1 only and holds at most the last 6 user messages that the
\* conversation held before the prompt; every other request is the step's
\* system prompt, if it has one, followed by its rendered input template.
C22_HistoryWindowAtFirstStepOnly ==
    \A w \in Crew : \A k \in 1..Len(workers[w].requests) :
        LET req == workers[w].requests[k]
            system_prompt == Strip(workers[w].crew_config[req.step].system_prompt)
            prior == PriorUserTurns(w)
            input == IF req.step = 1 /\ prior # <<>>
                     THEN req.input \o <<"\n\nPrevious user messages:\n">> \o Join(prior)
                     ELSE req.input
        IN  /\ Len(prior) <= 6
            /\ req.messages =
                    (IF system_prompt # <<>> THEN <<Msg("system", system_prompt)>> ELSE <<>>)
                        \o <<Msg("user", input)>>

\* stop() is called on worker w in this step
StopCalled(w) == workers[w].running /\ ~workers'[w].running

\* C23: cancellation is cooperative and bounded by one fragment boundary:
\* after stop() the worker takes at most one more line from the transport,
\* uses nothing of it and leaves the read loop with it; stop() itself changes
\* nothing but the flag (the worker stays where it is, nothing is emitted);
\* and a flag that is down stays down.
C23_StopIsCooperative ==
    /\ [](\A w \in Workers :
            /\ workers[w].afterStop <= 1
            /\ workers[w].afterStop = 1 => workers[w].pc # "reading"
            /\ ~workers[w].running => Len(workers[w].recv) = workers[w].stopAt)
    /\ [][\A w \in Workers :
            /\ ~workers[w].running => ~workers'[w].running
            /\ StopCalled(w) => /\ workers'[w].pc = workers[w].pc
                                /\ workers'[w].response = workers[w].response
                                /\ workers'[w].chunk_count = workers[w].chunk_count
                                /\ queue' = queue]_vars

\* stop() reached a worker in its read loop after one fragment; the worker
\* took one more line, a fragment, dropped it and left the loop
C23_Witness ==
    \E w \in Workers :
        /\ workers[w].stopPc = "reading" /\ workers[w].stopAt = 1
        /\ workers[w].afterStop = 1 /\ workers[w].dropped
        /\ workers[w].recv = << <<"a">> >>
        /\ workers[w].pc \notin {"reading", "new"}

UnlockedReads == {"list_conversations", "list_crews", "get_crew", "get_default_crew_config"}

C25_PollEndsRunningOrGivesUpAfter30 ==
    \A t \in 1..Len(mgr.serve) :
        LET s == mgr.serve[t]
        IN  /\ s.polls <= PollCap
            /\ s.pc = "done" =>
                \/ /\ s.end.log = "ready"
                   /\ s.end.server_ready /\ s.end.status_label = "Running"
                \/ /\ s.end.log = "not responding"
                   /\ s.polls = PollCap
                   /\ ~s.end.server_ready /\ s.end.status_label # "Running"

\* a template with every {previous} replaced by the text and every other atom
\* passed through
RECURSIVE PlainSubst(_, _)
PlainSubst(tmpl, previous) ==
    IF tmpl = <<>> THEN <<>>
    ELSE (IF Head(tmpl) = Prev THEN previous ELSE <<Head(tmpl)>>)
            \o PlainSubst(Tail(tmpl), previous)

\* the previous-output string that request k of worker w was rendered with
PreviousAt(w, k) ==
    IF workers[w].requests[k].step = 1 THEN workers[w].user_prompt
    ELSE OutOf(RawBefore(w, k))

\* C26: template rendering is a plain placeholder substitution: every
\* {previous} of a step's template is replaced by the same previous-output
\* string, every other character, other braces included, is passed through
\* unchanged, and the step runs whatever its template holds (no run ends
\* because of a template).
C26_TemplateIsPlainSubstitution ==
    \A w \in Crew :
        /\ workers[w].pc # "crashed"
        /\ \A k \in 1..Len(workers[w].requests) :
                workers[w].requests[k].input = PlainSubst(TemplateOf(w, k), PreviousAt(w, k))

\* an attempt, made in this step, to give a crew a name that another crew has
DuplicateAttempt ==
    \/ \E name \in CrewNames, config \in CrewConfigs :
            NameTaken(crews, name, 0) /\ CreateNewCrew(name, config)
    \/ \E id \in 1..MaxCrews, name \in CrewNames :
            NameTaken(crews, name, id) /\ RenameCrew(id, name)
    \/ \E id \in 1..MaxCrews, name \in CrewNames, config \in CrewConfigs :
            NameTaken(crews, name, id) /\ EditCrew(id, name, config)

\* no two stored crews share a name
UniqueNames == \A r, s \in crews.rows : r.name = s.name => r = s

\* C27: crew names are unique: after any sequence of create_crew, update_crew,
\* update_crew_name and delete_crew no two stored crews share a name, and an
\* attempt to create or rename a crew to an existing name raises an error and
\* leaves the rows of the store and the currently selected crew as they were.
C27_CrewNamesUniqueDuplicateRejected ==
    /\ []UniqueNames
    /\ [][DuplicateAttempt =>
            /\ crews'.rows = crews.rows /\ crews'.next_id = crews.next_id
            /\ crews'.rejected # ""
            /\ current_crew_id' = current_crew_id
            /\ current_crew_name' = current_crew_name
            /\ current_crew_config' = current_crew_config]_vars

\* a duplicate name was refused while two crews are stored and one is selected
C27_Witness ==
    /\ crews.rejected # ""
    /\ Cardinality(crews.rows) = 2
    /\ current_crew_id # 0
    /\ ~aborted

\* C28: the assistant reply of a generation is persisted to the conversation in
\* which its user message was sent, even if the user starts a new chat, loads
\* another conversation or deletes a conversation while the generation is in
\* flight.
C28_ReplyStoredWithItsPrompt ==
    \A w \in Workers : \A k \in 1..Len(persisted[w]) :
        persisted[w][k].cid = workers[w].sent[1].cid

\* the number of stop markers in a text
Markers(t) == Cardinality({k \in 1..Len(t) : t[k] = StopMarker[1]})

\* C29: the persisted assistant message of a cancelled generation contains the
\* stopped-by-user marker exactly once, and the persisted message of a
\* generation that was never stopped contains it zero times, in both
\* single-model and crew mode.
C29_MarkerOnceIffStopped ==
    \A w \in Workers : \A k \in 1..Len(persisted[w]) :
        Markers(persisted[w][k].content) = IF persisted[w][k].cancelled THEN 1 ELSE 0

\* worker w was started by send() and has not emitted its terminal event
InFlight(w) == workers[w].kind # "none" /\ workers[w].pc \notin {"done", "crashed"}

\* C30: while a generation worker is running, the Stop action stays available
\* and reaches that worker: the stop/reload control is enabled and the window's
\* worker handle refers to the running worker from send() until that worker
\* has emitted its terminal event, whatever other UI events (new chat, load
\* conversation, an error reported by a pipeline step) occur in between.
C30_StopReachesRunningWorker ==
    \A w \in Workers :
        (InFlight(w) /\ ~aborted) => stop_reload_btn.enabled /\ thread = w

\* C31: an accepted send in crew mode (non-empty prompt, a crew selected)
\* always starts a pipeline worker and leaves the UI in the generating state
\* with a live worker, whether or not a retriever is configured and whether or
\* not the retriever returned any snippet; in crew mode with no crew selected,
\* send starts no worker and returns the UI to idle.
C31_CrewSendStartsWorker ==
    [][\A typed \in Inputs :
        (Send(typed) /\ advanced_mode /\ Strip(typed) # <<>>) =>
            IF current_crew_config # <<>>
            THEN /\ thread' = FreshWorker
                 /\ workers'[thread'].kind = "crew"
                 /\ thread' \in timers'
                 /\ stop_reload_btn' = [text |-> "Stop", enabled |-> TRUE]
            ELSE /\ workers' = workers /\ thread' = thread
                 /\ stop_reload_btn'.text = "Reload"]_vars

\* the contents of the user messages of conversation c
UserPromptsOf(c) ==
    {messages[k].content : k \in {j \in 1..Len(messages) :
                                    messages[j].cid = c /\ messages[j].role = "user"}}

\* C32: after load_conversation(c), the prompt that Reload would resend
\* (last_user_prompt) is either empty or the content of a user message of
\* conversation c; it is never a prompt that was typed in a different
\* conversation.
C32_ReloadPromptBelongsToLoaded ==
    [][\A c \in conversations :
        LoadConversation(c) =>
            (last_user_prompt' = <<>> \/ last_user_prompt' \in UserPromptsOf(c))]_vars

\* the stored crews marked default
DefaultCrews == {r \in crews.rows : r.is_default}

\* C33: after any sequence of create_crew, set_default_crew, update_crew and
\* delete_crew, at most one stored crew is marked default, and after
\* set_default_crew(id) on an existing crew exactly that crew is the default
\* and get_default_crew_config returns its configuration.
C33_AtMostOneDefaultCrew ==
    /\ [](Cardinality(DefaultCrews) <= 1)
    /\ [][\A id \in 1..MaxCrews :
            SetDefaultCrew(id) =>
                /\ {r.id : r \in DefaultCrews'} = {id}
                /\ GetDefaultCrewConfig(crews') = {CrewRow(crews', id).config}]_vars

\* two crews are stored and the second one created has been made the default
C33_Witness ==
    /\ Cardinality(crews.rows) = 2
    /\ \E r \in DefaultCrews : r.id = 2 /\ current_crew_id = 2
    /\ \E r \in crews.rows : r.id = 1 /\ ~r.is_default

\* C34: the model manager keeps at most one server subprocess that it started
\* alive at a time, and its process handle always refers to that subprocess:
\* pressing Start again while a start is still polling, or after a start whose
\* polling timed out, does not spawn a second server process or lose the
\* handle of the first, and Stop terminates the process the manager started.
C34_OneServerProcessWithHandle ==
    /\ Cardinality(mgr.alive) <= 1
    /\ mgr.alive # {} => mgr.process \in mgr.alive

\* a pull operation of the manager is in flight
PullInFlight == \E t \in 1..Len(mgr.pulls) : mgr.pulls[t].pc = "reading"

\* C35: the model manager's progress bar is visible whenever at least one pull
\* or push operation is in flight and hidden only when none is: an operation
\* that finishes or is started does not hide the bar or reset the progress
\* value of another operation that is still running.
C35_ProgressBarWhileInFlight ==
    /\ [](PullInFlight => mgr.progress.visible)
    /\ [][PullInFlight /\ PullModel => mgr'.progress.value = mgr.progress.value]_vars

\* C36: after cancel_rag() the cancelled indexing worker never installs a
\* retriever: no finished event of that worker is handled afterwards, so the
\* retriever keeps the value it had before the cancelled run and the RAG
\* controls stay in the idle state.
C36_CancelledWorkerInstallsNothing ==
    rag.cancelled =>
        /\ retriever = rag.before
        /\ rag.rag_btn /\ ~rag.cancel_visible /\ ~rag.bar.visible

\* C37: every progress event (done, total) emitted by the indexing worker
\* satisfies 0 <= done <= total, done never decreases during a run, and a run
\* that is not cancelled ends with done = total before the finished event.
C37_ProgressWithinTotal ==
    /\ \A k \in 1..Len(rag.emitted) :
            0 <= rag.emitted[k].done /\ rag.emitted[k].done <= rag.emitted[k].total
    /\ \A k \in 1..(Len(rag.emitted) - 1) : rag.emitted[k].done <= rag.emitted[k + 1].done
    /\ (rag.ended = "finished" /\ ~rag.cancelled) =>
            rag.emitted[Len(rag.emitted)].done = rag.total

\* C38: across any sequence of model-select, sign-in, auth-poll, sign-out and
\* remove events in the model manager, the push button is enabled only if the
\* user is signed in and the currently selected model has a name containing
\* '/' and has not been removed.
C38_PushOnlySignedInNamedModel ==
    mgr.push_btn =>
        /\ mgr.is_signed_in
        /\ HasUsername(mgr.current_selected_model)
        /\ ~mgr.removed

====
